---- MODULE Spec2Model ----
(***************************************************************************)
(* Consensus directory subsystem of the relay: the quorum checker          *)
(* (networkstatus_check_consensus_signature), the consensus store          *)
(* (networkstatus_set_current_consensus, networkstatus_note_certs_arrived) *)
(* and the cert-waiting slots of src/or/networkstatus.c.                   *)
(*                                                                         *)
(* Time is counted in model ticks; a document's bytes are represented by   *)
(* the record the parser would build from them, signatures included.       *)
(***************************************************************************)
EXTENDS Integers, Sequences, FiniteSets, TLC

(***************************************************************************)
(* Bounds of the model.                                                    *)
(***************************************************************************)
\* Number of directory identities that can appear as voters.
NumIds == 2
\* Most trusted dir servers of type V3_DIRINFO configured for the store.
NumAuthorities == 3
\* Number of directory identities in the documents given to the checker alone.
NumCheckerIds == 3
\* Number of distinct signing keys an identity can sign with.
NumKeys == 2
\* Last value of the clock.
MaxTime == 2
\* Largest valid-after time of a consensus handed to the store.
MaxValidAfter == 2
\* Longest lifetime (valid_until - valid_after) of a consensus.
MaxLifetime == 1
\* Most signatures one voter carries in a document given to the checker.
MaxSigs == 2
\* Most documents handed to the store in one run.
MaxDocs == 2

Ids == 1..NumIds
CheckerIds == 1..NumCheckerIds
Keys == 1..NumKeys

(***************************************************************************)
(* Consensus flavors.                                                      *)
(***************************************************************************)
FLAV_NS == 0
FLAV_MICRODESC == 1
N_CONSENSUS_FLAVORS == 2
Flavors == 0..(N_CONSENSUS_FLAVORS - 1)
FlavorNames == {"ns", "microdesc", "bogus"}

networkstatus_get_flavor_name(flav) ==
  CASE flav = FLAV_NS -> "ns"
    [] flav = FLAV_MICRODESC -> "microdesc"
    [] OTHER -> "??"

networkstatus_parse_flavor_name(flavname) ==
  IF flavname = "ns" THEN FLAV_NS
  ELSE IF flavname = "microdesc" THEN FLAV_MICRODESC
  ELSE -1

(***************************************************************************)
(* State.                                                                  *)
(***************************************************************************)
VARIABLES
  now,                \* time(NULL)
  authorities,        \* identities of the trusted dir servers of type V3_DIRINFO
  trusted_certs,      \* certificate store: <<identity, signing key>> -> expires, 0 = none
  dl_uncertain,       \* identities whose certificate download looks uncertain
  qc,                 \* a parsed consensus object held by a caller of the checker
  qres,               \* what the last run of the checker on qc returned
  use_microdescriptors,   \* we_use_microdescriptors_for_circuits(options)
  caches_dir_info,        \* directory_caches_dir_info(options)
  fetch_everything,       \* authdir_mode_v3(options) or options->FetchUselessDescriptors
  current_ns_consensus,
  current_md_consensus,
  consensus_waiting_for_certs,
  consensus_dl_status,
  time_to_download_next_consensus,
  named_server_map,   \* lowercase nickname -> identity digest of the router
                      \* the consensus names so
  unnamed_server_map, \* lowercase nickname -> 1 for the nicknames the
                      \* consensus says nobody may be looked up by
  crashed,            \* the process has dereferenced a null pointer
  n_docs,             \* documents handed to the store so far
  last,               \* the call the main loop made last, and what it returned
  fetch_c,            \* a current consensus, the options and the clock given to
                      \* update_consensus_networkstatus_fetch_time_impl
  fetch_out,          \* what that call computed and scheduled
  fetching,           \* flavors with a consensus fetch in progress (directory
                      \* connections of purpose DIR_PURPOSE_FETCH_CONSENSUS)
  the_microdesc_cache,    \* the microdesc_cache_t of microdesc.c
  cache_file,         \* what is on disk in cached-microdescs
  journal_file,       \* what is on disk in cached-microdescs.new
  nodelist,           \* node -> the digest of the microdescriptor node->md
                      \* points at, or NULL
  n_ops,              \* calls made into the microdescriptor cache so far
  req_c,              \* a requested-digest list and a batch of descriptors
                      \* given to microdescs_add_to_cache
  req_out,            \* what the call made of them
  networkstatus_v2_list,    \* the v2 network statuses held in memory
  cached_status,      \* what is on disk in cached-status/: identity -> bytes
  cached_v2_networkstatus,  \* the statuses the directory server hands out
  v2_ns_dl_status,    \* trusted_dir->v2_ns_dl_status, by identity
  v2_options          \* directory_caches_v2_dir_info(options), and the
                      \* identity digest router_digest_is_me answers to

checker_vars == <<qc, qres>>
env_vars == <<now, authorities, trusted_certs, dl_uncertain,
              use_microdescriptors, caches_dir_info, fetch_everything>>
store_vars == <<current_ns_consensus, current_md_consensus,
                consensus_waiting_for_certs, consensus_dl_status,
                time_to_download_next_consensus, named_server_map,
                unnamed_server_map, crashed>>
fetch_vars == <<fetch_c, fetch_out>>
sched_vars == <<fetching>>
md_vars == <<the_microdesc_cache, cache_file, journal_file, nodelist, n_ops>>
req_vars == <<req_c, req_out>>
v2_vars == <<networkstatus_v2_list, cached_status, cached_v2_networkstatus,
             v2_ns_dl_status, v2_options>>
\* What the store, the checker on its own, and the fetch-time computation
\* leave alone.
store_aside ==
  <<checker_vars, fetch_vars, sched_vars, md_vars, req_vars, v2_vars>>
checker_aside ==
  <<store_vars, last, n_docs, fetch_vars, sched_vars, md_vars, req_vars,
    v2_vars>>
fetch_aside ==
  <<env_vars, checker_vars, store_vars, last, n_docs, sched_vars, md_vars,
    req_vars, v2_vars>>
vars == <<env_vars, checker_vars, store_vars, last, n_docs, fetch_vars,
          sched_vars, md_vars, req_vars, v2_vars>>

\* The null pointer.
NULL == [null |-> TRUE]

(***************************************************************************)
(* Documents.  A signature carries the digest of the key that made it and  *)
(* whether its bytes verify against the document digest under that key.    *)
(***************************************************************************)
RawSigs == [signing_key_digest : Keys, verifies : BOOLEAN]

RECURSIVE SeqsUpTo(_, _)
SeqsUpTo(S, n) ==
  IF n = 0 THEN {<<>>}
  ELSE LET shorter == SeqsUpTo(S, n - 1)
       IN shorter \cup {Append(s, x) : s \in {t \in shorter : Len(t) = n - 1}, x \in S}

\* The parser's signature object: flags start cleared.
ParseSig(id, raw) ==
  [signing_key_digest |-> raw.signing_key_digest,
   identity_digest |-> id,
   verifies |-> raw.verifies,
   good_signature |-> FALSE,
   bad_signature |-> FALSE]

ParseSigs(id, raws) == [i \in 1..Len(raws) |-> ParseSig(id, raws[i])]

(***************************************************************************)
(* Certificate store (routerlist.c, consumed through its interface).       *)
(***************************************************************************)
authority_cert_get_by_digests(certs, id, skd) ==
  IF certs[<<id, skd>>] = 0 THEN NULL
  ELSE [identity_digest |-> id, signing_key_digest |-> skd,
        expires |-> certs[<<id, skd>>]]

authority_cert_dl_looks_uncertain(uncertain, id) == id \in uncertain

trusteddirserver_get_by_v3_auth_digest(auths, id) == id \in auths

get_n_authorities(auths) == Cardinality(auths)

\* A variant that marks the signature bad when the certificate is not the
\* one it names.
networkstatus_check_document_signature_MarksMismatch(sig, cert) ==
  IF sig.signing_key_digest # cert.signing_key_digest
     \/ sig.identity_digest # cert.identity_digest
  THEN [ret |-> -1, sig |-> [sig EXCEPT !.bad_signature = TRUE]]
  ELSE IF ~sig.verifies
       THEN [ret |-> 0, sig |-> [sig EXCEPT !.bad_signature = TRUE]]
       ELSE [ret |-> 0, sig |-> [sig EXCEPT !.good_signature = TRUE]]

(***************************************************************************)
(* networkstatus_check_document_signature: -1 when the certificate is not  *)
(* the one the signature names, else 0 with exactly one flag set.          *)
(***************************************************************************)
networkstatus_check_document_signature(sig, cert) ==
  IF sig.signing_key_digest # cert.signing_key_digest
     \/ sig.identity_digest # cert.identity_digest
  THEN [ret |-> -1, sig |-> sig]
  ELSE IF ~sig.verifies
       THEN [ret |-> 0, sig |-> [sig EXCEPT !.bad_signature = TRUE]]
       ELSE [ret |-> 0, sig |-> [sig EXCEPT !.good_signature = TRUE]]

(***************************************************************************)
(* The inner loop of networkstatus_check_consensus_signature over one      *)
(* voter's signatures.  acc carries the *_here counters and the signatures *)
(* with their flags as the loop leaves them.                               *)
(***************************************************************************)
NoCounts == [sigs |-> <<>>, good_here |-> 0, bad_here |-> 0, unknown_here |-> 0,
             missing_key_here |-> 0, dl_failed_key_here |-> 0]

\* A variant that does not count the signatures flagged by an earlier run.
CheckOneSig_ForgetsFlagged(sig, env, acc) ==
  LET tally(s, a) ==
        IF s.good_signature
        THEN [a EXCEPT !.sigs = Append(@, s), !.good_here = @ + 1]
        ELSE IF s.bad_signature
             THEN [a EXCEPT !.sigs = Append(@, s), !.bad_here = @ + 1]
             ELSE [a EXCEPT !.sigs = Append(@, s)]
      missing(a) ==
        [a EXCEPT !.sigs = Append(@, sig),
                  !.missing_key_here = @ + 1,
                  !.dl_failed_key_here =
                     IF authority_cert_dl_looks_uncertain(env.uncertain,
                                                         sig.identity_digest)
                     THEN @ + 1 ELSE @]
  IN
  IF ~sig.good_signature /\ ~sig.bad_signature
  THEN LET is_v3_auth == trusteddirserver_get_by_v3_auth_digest(
                            env.auths, sig.identity_digest)
           cert == authority_cert_get_by_digests(
                     env.certs, sig.identity_digest, sig.signing_key_digest)
       IN IF ~is_v3_auth
          THEN [acc EXCEPT !.sigs = Append(@, sig), !.unknown_here = @ + 1]
          ELSE IF cert = NULL \/ cert.expires < env.now
               THEN missing(acc)
               ELSE LET chk == networkstatus_check_document_signature(sig, cert)
                    IN IF chk.ret < 0 THEN missing(acc)
                       ELSE tally(chk.sig, acc)
  ELSE [acc EXCEPT !.sigs = Append(@, sig)]

CheckOneSig(sig, env, acc) ==
  LET tally(s, a) ==
        IF s.good_signature
        THEN [a EXCEPT !.sigs = Append(@, s), !.good_here = @ + 1]
        ELSE IF s.bad_signature
             THEN [a EXCEPT !.sigs = Append(@, s), !.bad_here = @ + 1]
             ELSE [a EXCEPT !.sigs = Append(@, s)]
      missing(a) ==
        [a EXCEPT !.sigs = Append(@, sig),
                  !.missing_key_here = @ + 1,
                  !.dl_failed_key_here =
                     IF authority_cert_dl_looks_uncertain(env.uncertain,
                                                         sig.identity_digest)
                     THEN @ + 1 ELSE @]
  IN
  IF ~sig.good_signature /\ ~sig.bad_signature
  THEN LET is_v3_auth == trusteddirserver_get_by_v3_auth_digest(
                            env.auths, sig.identity_digest)
           cert == authority_cert_get_by_digests(
                     env.certs, sig.identity_digest, sig.signing_key_digest)
       IN IF ~is_v3_auth
          THEN [acc EXCEPT !.sigs = Append(@, sig), !.unknown_here = @ + 1]
          ELSE IF cert = NULL \/ cert.expires < env.now
               THEN missing(acc)
               ELSE LET chk == networkstatus_check_document_signature(sig, cert)
                    IN IF chk.ret < 0 THEN missing(acc)
                       ELSE tally(chk.sig, acc)
  ELSE tally(sig, acc)

RECURSIVE CheckVoterSigs(_, _, _)
CheckVoterSigs(sigs, env, acc) ==
  IF sigs = <<>> THEN acc
  ELSE CheckVoterSigs(Tail(sigs), env, CheckOneSig(Head(sigs), env, acc))

\* A variant that takes the first bucket in the order unknown authority,
\* missing certificate, bad, good, no signature.
VoterBucket_UnknownFirst(here) ==
  IF here.unknown_here > 0 THEN "unknown"
  ELSE IF here.missing_key_here > 0 THEN "missing_key"
  ELSE IF here.bad_here > 0 THEN "bad"
  ELSE IF here.good_here > 0 THEN "good"
  ELSE "no_signature"

(***************************************************************************)
(* The bucket a voter is counted in, from its *_here counters.             *)
(***************************************************************************)
VoterBucket(here) ==
  IF here.good_here > 0 THEN "good"
  ELSE IF here.bad_here > 0 THEN "bad"
  ELSE IF here.missing_key_here > 0 THEN "missing_key"
  ELSE IF here.unknown_here > 0 THEN "unknown"
  ELSE "no_signature"

\* A variant that asks for the quorum to be reachable without the certificates
\* whose download looks uncertain before it answers -1.
QuorumReturn_DlFailed(n_good, n_missing_key, n_dl_failed_key, n_v3_authorities) ==
  LET n_required == (n_v3_authorities \div 2) + 1
  IN IF n_good = n_v3_authorities THEN 1
     ELSE IF n_good >= n_required THEN 0
     ELSE IF n_good + n_missing_key >= n_required
             /\ n_good + n_missing_key - n_dl_failed_key >= n_required THEN -1
     ELSE -2

(***************************************************************************)
(* The return value of the checker from its counters.                      *)
(***************************************************************************)
QuorumReturn(n_good, n_missing_key, n_dl_failed_key, n_v3_authorities) ==
  LET n_required == (n_v3_authorities \div 2) + 1
  IN IF n_good = n_v3_authorities THEN 1
     ELSE IF n_good >= n_required THEN 0
     ELSE IF n_good + n_missing_key >= n_required THEN -1
     ELSE -2

ZeroTotals == [voters |-> <<>>, buckets |-> <<>>, heres |-> <<>>, n_good |-> 0, n_bad |-> 0,
               n_missing_key |-> 0, n_dl_failed_key |-> 0, n_unknown |-> 0,
               n_no_signature |-> 0]

\* A variant that counts the uncertain download of a voter whatever its
\* bucket is.
CountInBucket_DlFailedAnywhere(voter, here, bucket, tot) ==
  LET t1 == [tot EXCEPT !.voters = Append(@, [voter EXCEPT !.sigs = here.sigs]),
                        !.buckets = Append(@, bucket),
                        !.heres = Append(@, [here EXCEPT !.sigs = <<>>]),
                        !.n_dl_failed_key =
                           IF here.dl_failed_key_here > 0 THEN @ + 1 ELSE @]
  IN CASE bucket = "good" -> [t1 EXCEPT !.n_good = @ + 1]
       [] bucket = "bad" -> [t1 EXCEPT !.n_bad = @ + 1]
       [] bucket = "missing_key" -> [t1 EXCEPT !.n_missing_key = @ + 1]
       [] bucket = "unknown" -> [t1 EXCEPT !.n_unknown = @ + 1]
       [] OTHER -> [t1 EXCEPT !.n_no_signature = @ + 1]

\* The voter is counted in its bucket; its signatures keep the flags set.
CountInBucket(voter, here, bucket, tot) ==
  LET t1 == [tot EXCEPT !.voters = Append(@, [voter EXCEPT !.sigs = here.sigs]),
                        !.buckets = Append(@, bucket),
                        !.heres = Append(@, [here EXCEPT !.sigs = <<>>])]
  IN CASE bucket = "good" -> [t1 EXCEPT !.n_good = @ + 1]
       [] bucket = "bad" -> [t1 EXCEPT !.n_bad = @ + 1]
       [] bucket = "missing_key" ->
            [t1 EXCEPT !.n_missing_key = @ + 1,
                       !.n_dl_failed_key =
                          IF here.dl_failed_key_here > 0 THEN @ + 1 ELSE @]
       [] bucket = "unknown" -> [t1 EXCEPT !.n_unknown = @ + 1]
       [] OTHER -> [t1 EXCEPT !.n_no_signature = @ + 1]

CountHere(voter, here, tot) ==
  CountInBucket(voter, here, VoterBucket(here), tot)

\* One round of the loop over consensus->voters.
CountVoter(voter, env, tot) ==
  CountHere(voter, CheckVoterSigs(voter.sigs, env, NoCounts), tot)

RECURSIVE CountVoters(_, _, _)
CountVoters(voters, env, tot) ==
  IF voters = <<>> THEN tot
  ELSE CountVoters(Tail(voters), env, CountVoter(Head(voters), env, tot))

\* What a run of the checker leaves: the result, the counters and the
\* consensus with the flags the run has set on its signatures.
CheckerResult(consensus, tot, n_v3_authorities) ==
  [r |-> QuorumReturn(tot.n_good, tot.n_missing_key, tot.n_dl_failed_key,
                      n_v3_authorities),
   consensus |-> [consensus EXCEPT !.voters = tot.voters],
   buckets |-> tot.buckets,
   heres |-> tot.heres,
   n_good |-> tot.n_good, n_bad |-> tot.n_bad,
   n_missing_key |-> tot.n_missing_key,
   n_dl_failed_key |-> tot.n_dl_failed_key,
   n_unknown |-> tot.n_unknown,
   n_no_signature |-> tot.n_no_signature,
   n_v3_authorities |-> n_v3_authorities,
   n_required |-> (n_v3_authorities \div 2) + 1]

(***************************************************************************)
(* networkstatus_check_consensus_signature.                                *)
(***************************************************************************)
networkstatus_check_consensus_signature(consensus, env) ==
  CheckerResult(consensus, CountVoters(consensus.voters, env, ZeroTotals),
                get_n_authorities(env.auths))

Env == [auths |-> authorities, certs |-> trusted_certs,
        uncertain |-> dl_uncertain, now |-> now]

(***************************************************************************)
(* The consensus store.                                                    *)
(***************************************************************************)
\* Model ticks a cached consensus may be past its valid_until before it is
\* discarded as obsolete (OLD_ROUTER_DESC_MAX_AGE, scaled to the model clock).
OLD_ROUTER_DESC_MAX_AGE == 0
\* Model ticks a consensus may arrive ahead of its valid_after before the
\* clock is called skewed (EARLY_CONSENSUS_NOTICE_SKEW, scaled).
EARLY_CONSENSUS_NOTICE_SKEW == 0
\* n_download_failures stops counting here (IMPOSSIBLE_TO_DOWNLOAD-1, scaled).
MaxDownloadFailures == 9
\* How many times will we try to fetch a consensus before we give up?
CONSENSUS_NETWORKSTATUS_MAX_DL_TRIES == 8

NSSET_FROM_CACHE == "NSSET_FROM_CACHE"
NSSET_WAS_WAITING_FOR_CERTS == "NSSET_WAS_WAITING_FOR_CERTS"
NSSET_DONT_DOWNLOAD_CERTS == "NSSET_DONT_DOWNLOAD_CERTS"
NSSET_ACCEPT_OBSOLETE == "NSSET_ACCEPT_OBSOLETE"
NSSET_REQUIRE_FLAVOR == "NSSET_REQUIRE_FLAVOR"
NssetFlags == {NSSET_FROM_CACHE, NSSET_WAS_WAITING_FOR_CERTS,
               NSSET_DONT_DOWNLOAD_CERTS, NSSET_ACCEPT_OBSOLETE,
               NSSET_REQUIRE_FLAVOR}

\* Bytes nothing parses.
Garbage == [garbage |-> TRUE]

\* The consensus documents handed to the store: every identity is listed as a
\* voter and signs once, with its first key; the first identity's signature
\* verifies or not, the others' verify.
StoreDocs ==
  {[flavor |-> f, valid_after |-> va, valid_until |-> va + life,
    routerstatus_list |-> <<>>,
    voters |-> [i \in Ids |->
                  [identity_digest |-> i,
                   sigs |-> <<[signing_key_digest |-> 1,
                               verifies |-> (i # 1 \/ ok)]>>]]]
     : f \in Flavors, va \in 1..MaxValidAfter, life \in 0..MaxLifetime,
       ok \in BOOLEAN}

StoreBytes == StoreDocs \cup {Garbage}

\* The digests of a document cover everything in it but the signatures.
DocDigests(doc) ==
  [flavor |-> doc.flavor, valid_after |-> doc.valid_after,
   valid_until |-> doc.valid_until,
   routerstatus_list |-> doc.routerstatus_list,
   voters |-> [i \in 1..Len(doc.voters) |-> doc.voters[i].identity_digest]]

\* A routerstatus_t as the parser allocates it (tor_malloc_zero): the entry
\* of the document, never marked 503, no descriptor download failed.
FreshRouterStatus(e) ==
  e @@ [last_dir_503_at |-> 0,
        dl_status |-> [n_download_failures |-> 0, next_attempt_at |-> 0]]

networkstatus_parse_vote_from_string(s) ==
  IF s = Garbage THEN NULL
  ELSE [flavor |-> s.flavor, valid_after |-> s.valid_after,
        valid_until |-> s.valid_until, digests |-> DocDigests(s),
        routerstatus_list |-> [i \in 1..Len(s.routerstatus_list) |->
                                 FreshRouterStatus(s.routerstatus_list[i])],
        voters |-> [i \in 1..Len(s.voters) |->
                      [identity_digest |-> s.voters[i].identity_digest,
                       sigs |-> ParseSigs(s.voters[i].identity_digest,
                                          s.voters[i].sigs)]]]

\* What the store reads of a consensus once it is current.
Installed(c) ==
  [flavor |-> c.flavor, valid_after |-> c.valid_after,
   valid_until |-> c.valid_until, digests |-> c.digests,
   routerstatus_list |-> c.routerstatus_list]

EmptySlot == [consensus |-> NULL, body |-> NULL, set_at |-> 0, dl_failed |-> FALSE]

usable_consensus_flavor(st) ==
  IF st.use_microdescriptors THEN FLAV_MICRODESC ELSE FLAV_NS

networkstatus_get_latest_consensus_by_flavor(st, f) ==
  IF f = FLAV_NS THEN st.current_ns_consensus ELSE st.current_md_consensus

\* The macro current_consensus.
current_consensus(st) ==
  IF st.use_microdescriptors THEN st.current_md_consensus
  ELSE st.current_ns_consensus

IsLive_ExpiresEarly(c, t) ==
  c # NULL /\ c.valid_after <= t /\ t < c.valid_until
IsLive(c, t) == c # NULL /\ c.valid_after <= t /\ t <= c.valid_until

we_want_to_fetch_flavor(st, flavor) ==
  IF flavor < 0 \/ flavor > N_CONSENSUS_FLAVORS THEN FALSE
  ELSE IF st.caches_dir_info THEN TRUE
  ELSE IF st.fetch_everything THEN TRUE
  ELSE flavor = usable_consensus_flavor(st)

\* The download status of directory.c: the count of failures in a row and
\* the time of the next try.  The backoff schedule, in model ticks: no delay
\* after the first failure, one tick from the second, and the plateau of two
\* ticks once CONSENSUS_NETWORKSTATUS_MAX_DL_TRIES failures are recorded.
DownloadBackoff(n) ==
  IF n < 2 THEN 0
  ELSE IF n < CONSENSUS_NETWORKSTATUS_MAX_DL_TRIES THEN 1 ELSE 2

download_status_reset(dls) ==
  [dls EXCEPT !.n_download_failures = 0, !.next_attempt_at = 0]

\* The count after one more failure.
OneMoreFailure(n) == IF n < MaxDownloadFailures THEN n + 1 ELSE n

download_status_failed(dls, t) ==
  [n_download_failures |-> OneMoreFailure(dls.n_download_failures),
   next_attempt_at |-> t + DownloadBackoff(OneMoreFailure(dls.n_download_failures))]

download_status_is_ready(dls, t, max_failures) == dls.next_attempt_at <= t

\* update_consensus_networkstatus_fetch_time_impl with the clock in model
\* ticks: a live consensus is replaced at some time before it expires, taken
\* here as its valid_until; without a live consensus the fetch is due now.
update_consensus_networkstatus_fetch_time_impl(st, flav) ==
  LET c == networkstatus_get_latest_consensus_by_flavor(st, flav)
  IN IF ~we_want_to_fetch_flavor(st, flav) THEN st
     ELSE IF IsLive(c, st.now)
          THEN [st EXCEPT !.time_to_download_next_consensus[flav] = c.valid_until]
          ELSE [st EXCEPT !.time_to_download_next_consensus[flav] = st.now]

RECURSIVE FetchTimeLoop(_, _)
FetchTimeLoop(st, i) ==
  IF i >= N_CONSENSUS_FLAVORS THEN st
  ELSE FetchTimeLoop(
         IF we_want_to_fetch_flavor(st, i)
         THEN update_consensus_networkstatus_fetch_time_impl(st, i) ELSE st,
         i + 1)

update_consensus_networkstatus_fetch_time(st) == FetchTimeLoop(st, 0)

\* The nicknames that routers of the model carry.
Nicknames == {"Alice", "alice", "bob"}

\* tor_strlower.
tor_strlower(s) == IF s = "Alice" THEN "alice" ELSE s

\* A strmap_t: the values under the keys it holds.
strmap_new == [k \in {} |-> NULL]

\* strmap_set_lc: the value is stored under the lowercase of the key, in the
\* place of the value that was there.
strmap_set_lc(map, key, val) ==
  [k \in DOMAIN map \cup {tor_strlower(key)} |->
     IF k = tor_strlower(key) THEN val ELSE map[k]]

\* strmap_get_lc: the value under the lowercase of the key, or NULL.
strmap_get_lc(map, key) ==
  IF tor_strlower(key) \in DOMAIN map THEN map[tor_strlower(key)] ELSE NULL

\* tor_memdup(rs->identity_digest, DIGEST_LEN): a pointer to a copy.
tor_memdup(digest) == [digest |-> digest]

\* if (rs->is_named) strmap_set_lc(named_server_map, ...);
\* if (rs->is_unnamed) strmap_set_lc(unnamed_server_map, ...);
NameRouter(maps, rs) ==
  [named |-> IF rs.is_named
             THEN strmap_set_lc(maps.named, rs.nickname,
                                tor_memdup(rs.identity_digest))
             ELSE maps.named,
   unnamed |-> IF rs.is_unnamed
               THEN strmap_set_lc(maps.unnamed, rs.nickname, [ptr |-> 1])
               ELSE maps.unnamed]

RECURSIVE NameRouters(_, _, _)
NameRouters(maps, routerstatus_list, i) ==
  IF i > Len(routerstatus_list) THEN maps
  ELSE NameRouters(NameRouter(maps, routerstatus_list[i]),
                   routerstatus_list, i + 1)

NamedMapsAre(st, maps) ==
  [st EXCEPT !.named_server_map = maps.named,
             !.unnamed_server_map = maps.unnamed]

\* routerstatus_list_update_named_server_map: both maps are rebuilt from the
\* router list of current_consensus.
routerstatus_list_update_named_server_map(st) ==
  IF current_consensus(st) = NULL THEN st
  ELSE NamedMapsAre(st, NameRouters([named |-> strmap_new,
                                     unnamed |-> strmap_new],
                                    current_consensus(st).routerstatus_list,
                                    1))

SetCurrent(st, f, c) ==
  IF f = FLAV_NS THEN [st EXCEPT !.current_ns_consensus = c]
  ELSE [st EXCEPT !.current_md_consensus = c]

(***************************************************************************)
(* networkstatus_set_current_consensus(consensus, flavor, flags) on the    *)
(* state st.  aliased says that consensus is the pointer held in           *)
(* consensus_waiting_for_certs[].body (the call made by                    *)
(* networkstatus_note_certs_arrived); freed says whether a read of that    *)
(* string after the slot has freed it yields other bytes.  The value is    *)
(* the new state, the return value, the return site, and what the call     *)
(* emitted and wrote.                                                      *)
(***************************************************************************)
Returned(st, c, flav, result, how, chk, events, wrote, flags) ==
  [st |-> st, result |-> result, how |-> how, flav |-> flav,
   digests |-> IF c = NULL THEN NULL ELSE c.digests,
   valid_after |-> IF c = NULL THEN 0 ELSE c.valid_after,
   r |-> IF chk = NULL THEN NULL ELSE [r |-> chk.r, n_good |-> chk.n_good],
   events |-> events, wrote |-> wrote,
   was_waiting_for_certs |-> NSSET_WAS_WAITING_FOR_CERTS \in flags,
   from_cache |-> NSSET_FROM_CACHE \in flags]

\* The variant of the -2 branch that reports a consensus that can never be
\* signed enough as a serious failure whatever the flags are.
InsufficientResult_Always(was_waiting_for_certs) == -2

\* The result of the branch for a consensus that can never be signed enough.
InsufficientResult(was_waiting_for_certs) ==
  IF ~was_waiting_for_certs THEN -2 ELSE -1

\* The variant of the staleness test that lets an equally old consensus in.
IsStale_Strict(c_valid_after, current_valid_after) ==
  current_valid_after # 0 /\ c_valid_after < current_valid_after

\* The variant of the staleness test that finds nothing stale.
IsStale_Never(c_valid_after, current_valid_after) == FALSE

\* "We have a newer one": the test that guards the quorum check.
IsStale(c_valid_after, current_valid_after) ==
  current_valid_after # 0 /\ c_valid_after <= current_valid_after

\* The variant of the duplicate test that never finds a duplicate.
IsDuplicate_Never(c_digests, current_digests) == FALSE

\* "We already have this one."
IsDuplicate(c_digests, current_digests) ==
  current_digests # NULL /\ c_digests = current_digests

\* The variant that installs whatever the quorum check says short of -2.
SignedEnough_NeedCerts(r) == r >= -1

\* "Make sure it's signed enough": the check result lets the install go on.
SignedEnough(r) == r >= 0

\* The variant that keeps a parked consensus that is no newer than the one
\* being installed only when it is strictly older.
EvictsWaiting_Strict(waiting_valid_after, c_valid_after) ==
  waiting_valid_after < c_valid_after

\* A variant that carries the download status over to a new descriptor too.
CopyOldInfo_AnyDescriptor(rs_old, rs_new) ==
  [rs_new EXCEPT !.last_dir_503_at = rs_old.last_dir_503_at,
                 !.dl_status = rs_old.dl_status]

\* The body of the join: the same identity, and perhaps the same descriptor.
CopyOldInfo(rs_old, rs_new) ==
  [rs_new EXCEPT !.last_dir_503_at = rs_old.last_dir_503_at,
                 !.dl_status =
                    IF rs_old.descriptor_digest = rs_new.descriptor_digest
                    THEN rs_old.dl_status ELSE @]

\* SMARTLIST_FOREACH_JOIN over two lists sorted by identity digest: the
\* entries of new_l, those matched by an entry of old_l updated.
RECURSIVE SMARTLIST_FOREACH_JOIN(_, _, _, _)
SMARTLIST_FOREACH_JOIN(old_l, new_l, i, j) ==
  IF i > Len(old_l) \/ j > Len(new_l) THEN new_l
  ELSE IF old_l[i].identity_digest < new_l[j].identity_digest
       THEN SMARTLIST_FOREACH_JOIN(old_l, new_l, i + 1, j)
       ELSE IF old_l[i].identity_digest > new_l[j].identity_digest
            THEN SMARTLIST_FOREACH_JOIN(old_l, new_l, i, j + 1)
            ELSE SMARTLIST_FOREACH_JOIN(
                   old_l, [new_l EXCEPT ![j] = CopyOldInfo(old_l[i], @)],
                   i + 1, j + 1)

networkstatus_copy_old_consensus_info(new_c, old_c) ==
  IF old_c = new_c THEN new_c
  ELSE IF old_c = NULL \/ Len(old_c.routerstatus_list) = 0 THEN new_c
  ELSE [new_c EXCEPT !.routerstatus_list =
          SMARTLIST_FOREACH_JOIN(old_c.routerstatus_list, @, 1, 1)]

\* The parked consensus is dropped when the installed one is at least as new.
EvictsWaiting(waiting_valid_after, c_valid_after) ==
  waiting_valid_after <= c_valid_after

\* The parked consensus is dropped if the installed one is at least as new.
EvictWaiting(st, flav, evict) ==
  IF evict THEN [st EXCEPT !.consensus_waiting_for_certs[flav] = EmptySlot]
  ELSE st

\* The download status of the flavor after an install.
\* A variant that records the failure for a cached consensus too.
NoteDownloadStatus_AlsoFromCache(st, c, flav, from_cache) ==
  IF IsLive(c, st.now)
  THEN [st EXCEPT !.consensus_dl_status[flav] = download_status_reset(@)]
  ELSE [st EXCEPT !.consensus_dl_status[flav] =
                    download_status_failed(@, st.now)]

NoteDownloadStatus(st, c, flav, from_cache) ==
  IF IsLive(c, st.now)
  THEN [st EXCEPT !.consensus_dl_status[flav] = download_status_reset(@)]
  ELSE IF ~from_cache
       THEN [st EXCEPT !.consensus_dl_status[flav] =
                         download_status_failed(@, st.now)]
       ELSE st

\* What an install of the flavor in use goes on to update.
UpdateForUsable(st, usable) ==
  IF usable
  THEN routerstatus_list_update_named_server_map(
         update_consensus_networkstatus_fetch_time(st))
  ELSE st

InstallConsensus(st, c, chk, consensus, flav, flags) ==
  LET from_cache == NSSET_FROM_CACHE \in flags
      dl_certs == NSSET_DONT_DOWNLOAD_CERTS \notin flags
      usable == flav = usable_consensus_flavor(st)
      waiting == st.consensus_waiting_for_certs[flav]
      evict == waiting.consensus # NULL
               /\ EvictsWaiting(waiting.consensus.valid_after, c.valid_after)
      events == (IF ~from_cache /\ usable THEN {"CONSENSUS_ARRIVED"} ELSE {})
                \cup (IF chk.r # 1 /\ dl_certs THEN {"certs_fetch"} ELSE {})
                \cup (IF usable THEN {"NEWCONSENSUS", "NS"} ELSE {})
                \cup (IF st.now < c.valid_after - EARLY_CONSENSUS_NOTICE_SKEW
                      THEN {"CLOCK_SKEW"} ELSE {})
      \* unlink(unverified_fname), write_str_to_file(consensus_fname, ...)
      wrote == (IF evict THEN {"unlink-unverified"} ELSE {})
               \cup (IF ~from_cache THEN {"write-cached"} ELSE {})
  IN Returned(
       UpdateForUsable(
         NoteDownloadStatus(
           EvictWaiting(
             SetCurrent(st, flav,
                        networkstatus_copy_old_consensus_info(
                          Installed(c),
                          networkstatus_get_latest_consensus_by_flavor(st, flav))),
             flav, evict),
           c, flav, from_cache),
         usable),
       c, flav, 0, "installed", chk, events, wrote, flags)

ParkConsensus(st, c, chk, consensus, flav, flags, aliased, freed) ==
  LET from_cache == NSSET_FROM_CACHE \in flags
      dl_certs == NSSET_DONT_DOWNLOAD_CERTS \notin flags
      \* tor_free(waiting->body) has run before consensus is read again
      bytes == IF aliased /\ freed THEN Garbage ELSE consensus
      \* write_str_to_file(unverified_fname, consensus, 0)
      wrote == IF from_cache THEN {}
               ELSE IF bytes = consensus THEN {"write-unverified"}
               ELSE {"write-unverified-freed-bytes"}
  IN Returned([st EXCEPT !.consensus_waiting_for_certs[flav] =
                 [consensus |-> chk.consensus, body |-> bytes,
                  set_at |-> st.now, dl_failed |-> FALSE]],
              c, flav, 0, "parked", chk,
              IF dl_certs THEN {"certs_fetch"} ELSE {}, wrote, flags)

\* From "Make sure it's signed enough" on: chk is what the quorum check said.
SetCurrentChecked(st, consensus, c, current_valid_after, chk, flags, aliased, freed) ==
  LET flav == c.flavor
      from_cache == NSSET_FROM_CACHE \in flags
      was_waiting_for_certs == NSSET_WAS_WAITING_FOR_CERTS \in flags
      unlinked == IF was_waiting_for_certs /\ from_cache
                  THEN {"unlink-unverified"} ELSE {}
  IN
  IF ~SignedEnough(chk.r)
  THEN IF chk.r = -1
       THEN IF current_valid_after = 0 \/ c.valid_after > current_valid_after
            THEN ParkConsensus(st, c, chk, consensus, flav, flags, aliased, freed)
            ELSE Returned(st, c, flav, -1, "not-newer", chk, {}, unlinked, flags)
       ELSE Returned(st, c, flav, InsufficientResult(was_waiting_for_certs),
                     "insufficient", chk, {}, unlinked, flags)
  ELSE InstallConsensus(st, c, chk, consensus, flav, flags)

\* From the test of the flavor on: c is the parsed consensus, flav0 the
\* flavor named by the caller, cur the current consensus of c's flavor.
SetCurrentParsed(st, consensus, flav0, c, cur, flags, aliased, freed) ==
  LET flav == c.flavor
      from_cache == NSSET_FROM_CACHE \in flags
      accept_obsolete == NSSET_ACCEPT_OBSOLETE \in flags
      require_flavor == NSSET_REQUIRE_FLAVOR \in flags
      current_digests == IF cur = NULL THEN NULL ELSE cur.digests
      current_valid_after == IF cur = NULL THEN 0 ELSE cur.valid_after
  IN
  IF c.flavor # flav0 /\ require_flavor
  THEN Returned(st, c, flav0, -1, "wrong-flavor", NULL, {}, {}, flags)
  ELSE IF flav # usable_consensus_flavor(st) /\ ~st.caches_dir_info
  THEN Returned(st, c, flav, -1, "not-wanted", NULL, {}, {}, flags)
  ELSE IF from_cache /\ ~accept_obsolete
          /\ c.valid_until < st.now - OLD_ROUTER_DESC_MAX_AGE
  THEN Returned(st, c, flav, -1, "obsolete", NULL, {}, {}, flags)
  ELSE IF IsDuplicate(c.digests, current_digests)
  THEN Returned(st, c, flav, -1, "duplicate", NULL, {}, {}, flags)
  ELSE IF IsStale(c.valid_after, current_valid_after)
  THEN Returned(st, c, flav, -1, "stale", NULL, {}, {}, flags)
  ELSE SetCurrentChecked(
         st, consensus, c, current_valid_after,
         networkstatus_check_consensus_signature(
           c, [auths |-> st.authorities, certs |-> st.trusted_certs,
               uncertain |-> st.dl_uncertain, now |-> st.now]),
         flags, aliased, freed)

\* From the parse on: flav0 is the flavor named by the caller, c what the
\* parser made of the bytes.
SetCurrentOfFlavor(st, consensus, flav0, c, flags, aliased, freed) ==
  IF flav0 < 0
  THEN Returned(st, NULL, flav0, -2, "unrecognized-flavor", NULL, {}, {}, flags)
  ELSE IF c = NULL
  THEN Returned(st, NULL, flav0, -2, "bad-parse", NULL, {}, {}, flags)
  ELSE SetCurrentParsed(
         st, consensus, flav0, c,
         networkstatus_get_latest_consensus_by_flavor(st, c.flavor),
         flags, aliased, freed)

networkstatus_set_current_consensus(st, consensus, flavor, flags, aliased, freed) ==
  SetCurrentOfFlavor(st, consensus, networkstatus_parse_flavor_name(flavor),
                     networkstatus_parse_vote_from_string(consensus),
                     flags, aliased, freed)

(***************************************************************************)
(* The state as one record, and back.                                      *)
(***************************************************************************)
St ==
  [now |-> now, authorities |-> authorities, trusted_certs |-> trusted_certs,
   dl_uncertain |-> dl_uncertain,
   use_microdescriptors |-> use_microdescriptors,
   caches_dir_info |-> caches_dir_info,
   fetch_everything |-> fetch_everything,
   current_ns_consensus |-> current_ns_consensus,
   current_md_consensus |-> current_md_consensus,
   consensus_waiting_for_certs |-> consensus_waiting_for_certs,
   consensus_dl_status |-> consensus_dl_status,
   time_to_download_next_consensus |-> time_to_download_next_consensus,
   named_server_map |-> named_server_map,
   unnamed_server_map |-> unnamed_server_map,
   crashed |-> crashed]

StoreBecomes(st) ==
  /\ current_ns_consensus' = st.current_ns_consensus
  /\ current_md_consensus' = st.current_md_consensus
  /\ consensus_waiting_for_certs' = st.consensus_waiting_for_certs
  /\ consensus_dl_status' = st.consensus_dl_status
  /\ time_to_download_next_consensus' = st.time_to_download_next_consensus
  /\ named_server_map' = st.named_server_map
  /\ unnamed_server_map' = st.unnamed_server_map
  /\ crashed' = st.crashed

\* The valid_after of a consensus pointer, 0 for the null pointer.
ValidAfterOf(c) == IF c = NULL THEN 0 ELSE c.valid_after

\* What is recorded of a call: what it returned, emitted and wrote, and, for
\* a document that parsed, the valid_after and digests of the current and the
\* parked consensus of its flavor when the call was made in state st.
Summary(st, out) ==
  LET parsed == out.digests # NULL
      f == IF parsed THEN out.digests.flavor ELSE 0
      cur == networkstatus_get_latest_consensus_by_flavor(st, f)
  IN [result |-> out.result, how |-> out.how, flav |-> out.flav,
      digests |-> out.digests, valid_after |-> out.valid_after,
      r |-> out.r, events |-> out.events, wrote |-> out.wrote,
      was_waiting_for_certs |-> out.was_waiting_for_certs,
      from_cache |-> out.from_cache,
      current_valid_after |-> IF parsed THEN ValidAfterOf(cur) ELSE 0,
      current_digests |-> IF parsed /\ cur # NULL THEN cur.digests ELSE NULL,
      waiting_valid_after |->
        IF parsed
        THEN ValidAfterOf(st.consensus_waiting_for_certs[f].consensus)
        ELSE 0]

NoCall == [op |-> "none", calls |-> <<>>]

\* Nothing has been handed to the fetch-time computation.
FetchIdle == fetch_c = NULL /\ fetch_out = NULL

\* No directory connection is open.
SchedIdle == fetching = {}

\* The microdescriptor cache has not been allocated, and nothing has been
\* handed to it.
MdIdle ==
  /\ the_microdesc_cache = NULL
  /\ cache_file = <<>>
  /\ journal_file = <<>>
  /\ nodelist = <<>>
  /\ n_ops = 0

ReqIdle == req_c = NULL /\ req_out = NULL

\* No v2 network status has been received, and this is no v2 directory
\* cache.
V2Idle ==
  /\ networkstatus_v2_list = NULL
  /\ cached_status = NULL
  /\ cached_v2_networkstatus = NULL
  /\ v2_ns_dl_status = NULL
  /\ v2_options = NULL

StoreInit ==
  /\ current_ns_consensus = NULL
  /\ current_md_consensus = NULL
  /\ consensus_waiting_for_certs = [f \in Flavors |-> EmptySlot]
  /\ consensus_dl_status =
       [f \in Flavors |-> [n_download_failures |-> 0, next_attempt_at |-> 0]]
  /\ time_to_download_next_consensus = [f \in Flavors |-> 0]
  /\ named_server_map = NULL
  /\ unnamed_server_map = NULL
  /\ crashed = FALSE
  /\ last = NoCall
  /\ n_docs = 0

\* The configured authority sets: the first k identities, k = 0..NumAuthorities
\* (an authority beyond NumIds signs none of the documents).
AuthoritySets == {1..k : k \in 0..NumAuthorities}

Init ==
  /\ now = 1
  /\ authorities \in AuthoritySets
  /\ dl_uncertain = {}
  /\ trusted_certs = [k \in Ids \X {1} |-> 0]
  /\ use_microdescriptors \in BOOLEAN
  /\ caches_dir_info \in BOOLEAN
  /\ fetch_everything = FALSE
  /\ qc = NULL
  /\ qres = NULL
  /\ FetchIdle
  /\ SchedIdle
  /\ MdIdle
  /\ ReqIdle
  /\ V2Idle
  /\ StoreInit

(***************************************************************************)
(* A caller hands a document to the store.                                 *)
(***************************************************************************)
\* The store is left as st, and the calls made are recorded.
StoreCalled(op, st, calls) ==
  /\ StoreBecomes(st)
  /\ last' = [op |-> op, calls |-> calls]

SetCurrentReturns(out) ==
  StoreCalled("set_current_consensus", out.st, <<Summary(St, out)>>)

SetCurrentConsensus(consensus, flavor, flags) ==
  /\ ~crashed
  /\ last = NoCall
  /\ n_docs < MaxDocs
  /\ n_docs' = n_docs + 1
  /\ SetCurrentReturns(networkstatus_set_current_consensus(
                         St, consensus, flavor, flags, FALSE, FALSE))
  /\ UNCHANGED <<env_vars, store_aside>>

(***************************************************************************)
(* networkstatus_note_certs_arrived.  acc is the state and the calls made  *)
(* so far; the loop stops where the process dies.                          *)
(***************************************************************************)
\* if (!networkstatus_set_current_consensus(...)) tor_free(waiting->body);
NoteRetried(acc, i, st1, out) ==
  [st |-> IF out.result = 0
          THEN [out.st EXCEPT !.consensus_waiting_for_certs[i].body = NULL]
          ELSE out.st,
   calls |-> Append(acc.calls, Summary(st1, out))]

\* st1 is the state once the check has left its flags on the parked object.
NoteFlagged(acc, i, st1, r, freed) ==
  IF r < 0 THEN [acc EXCEPT !.st = st1]
  ELSE IF st1.consensus_waiting_for_certs[i].body = NULL
       THEN [acc EXCEPT !.st = [st1 EXCEPT !.crashed = TRUE]]
       ELSE NoteRetried(
              acc, i, st1,
              networkstatus_set_current_consensus(
                st1, st1.consensus_waiting_for_certs[i].body,
                networkstatus_get_flavor_name(i),
                {NSSET_WAS_WAITING_FOR_CERTS}, TRUE, freed))

NoteChecked(acc, i, chk, freed) ==
  NoteFlagged(acc, i,
              [acc.st EXCEPT !.consensus_waiting_for_certs[i].consensus =
                                chk.consensus],
              chk.r, freed)

NoteOneFlavor(acc, i, freed) ==
  IF acc.st.crashed \/ acc.st.consensus_waiting_for_certs[i].consensus = NULL
  THEN acc
  ELSE NoteChecked(
         acc, i,
         networkstatus_check_consensus_signature(
           acc.st.consensus_waiting_for_certs[i].consensus,
           [auths |-> acc.st.authorities, certs |-> acc.st.trusted_certs,
            uncertain |-> acc.st.dl_uncertain, now |-> acc.st.now]),
         freed)

RECURSIVE NoteLoop(_, _, _)
NoteLoop(acc, i, freed) ==
  IF i >= N_CONSENSUS_FLAVORS THEN acc
  ELSE NoteLoop(NoteOneFlavor(acc, i, freed), i + 1, freed)

networkstatus_note_certs_arrived(st, freed) ==
  NoteLoop([st |-> st, calls |-> <<>>], 0, freed)

NoteReturns(acc) == StoreCalled("note_certs_arrived", acc.st, acc.calls)

NoteCertsArrived ==
  /\ ~crashed
  /\ last = NoCall
  /\ \E garbled \in BOOLEAN :
        NoteReturns(networkstatus_note_certs_arrived(St, garbled))
  /\ UNCHANGED <<env_vars, store_aside, n_docs>>

(***************************************************************************)
(* The environment: certificates arrive and the clock advances.  The       *)
(* options are those the process started with.                             *)
(***************************************************************************)
CertArrives(id, skd, expires) ==
  /\ ~crashed
  /\ last = NoCall
  /\ trusted_certs[<<id, skd>>] # expires
  /\ trusted_certs' = [trusted_certs EXCEPT ![<<id, skd>>] = expires]
  /\ UNCHANGED <<last, now, authorities, dl_uncertain, use_microdescriptors,
                 caches_dir_info, fetch_everything, store_aside, store_vars,
                 n_docs>>

Tick ==
  /\ ~crashed
  /\ last = NoCall
  /\ now < MaxTime
  /\ now' = now + 1
  /\ UNCHANGED <<last, authorities, trusted_certs, dl_uncertain, use_microdescriptors,
                 caches_dir_info, fetch_everything, store_aside, store_vars,
                 n_docs>>

\* The call returns and the main loop goes on.
ReturnToMainLoop ==
  /\ last # NoCall
  /\ last' = NoCall
  /\ UNCHANGED <<env_vars, store_aside, store_vars, n_docs>>

\* The flag sets of the callers: a download, the cert-waiting retry, the
\* reload of the cached, the unverified and the fallback consensus, and a
\* caller that insists on the flavor it names.
CallFlags ==
  {{}, {NSSET_WAS_WAITING_FOR_CERTS},
   {NSSET_FROM_CACHE, NSSET_DONT_DOWNLOAD_CERTS},
   {NSSET_FROM_CACHE, NSSET_DONT_DOWNLOAD_CERTS, NSSET_WAS_WAITING_FOR_CERTS},
   {NSSET_FROM_CACHE, NSSET_DONT_DOWNLOAD_CERTS, NSSET_ACCEPT_OBSOLETE},
   {NSSET_REQUIRE_FLAVOR}}

\* The flavor names a caller passes with a document: the document's own, and
\* for a download or an insisting caller any name.
CallNames(consensus, flags) ==
  IF flags \subseteq {NSSET_REQUIRE_FLAVOR} \/ consensus = Garbage
  THEN FlavorNames
  ELSE {networkstatus_get_flavor_name(consensus.flavor)}

Next ==
  \/ \E consensus \in StoreBytes, flags \in CallFlags :
        \E flavor \in CallNames(consensus, flags) :
           SetCurrentConsensus(consensus, flavor, flags)
  \/ NoteCertsArrived
  \/ \E id \in authorities \cap Ids, expires \in {now, MaxTime} :
        CertArrives(id, 1, expires)
  \/ Tick
  \/ ReturnToMainLoop

Spec == Init /\ [][Next]_vars

(***************************************************************************)
(* The checker on its own: a caller holds one parsed consensus, the        *)
(* certificate store fills up, and the checker runs on the object again    *)
(* and again (each run keeps the flags the earlier runs have set).         *)
(***************************************************************************)
\* A voter signs at most once with each of its keys, in key order.
RECURSIVE IncreasingKeys(_)
IncreasingKeys(raws) ==
  IF Len(raws) < 2 THEN TRUE
  ELSE raws[1].signing_key_digest < raws[2].signing_key_digest
       /\ IncreasingKeys(Tail(raws))

VoterSigLists == {s \in SeqsUpTo(RawSigs, MaxSigs) : IncreasingKeys(s)}

CheckerDocs ==
  {[voters |-> [i \in CheckerIds |->
                  [identity_digest |-> i, sigs |-> ParseSigs(i, f[i])]]]
     : f \in [CheckerIds -> VoterSigLists]}

\* The configured authority sets: the first k identities, k = 0..NumCheckerIds.
CheckerAuthoritySets == {1..k : k \in 0..NumCheckerIds}

QInit ==
  /\ now = 1
  /\ authorities \in CheckerAuthoritySets
  /\ dl_uncertain \in {{}, CheckerIds}
  /\ trusted_certs \in [CheckerIds \X Keys -> {0, MaxTime}]
  /\ qc \in CheckerDocs
  /\ qres = NULL
  /\ use_microdescriptors = FALSE
  /\ caches_dir_info = FALSE
  /\ fetch_everything = FALSE
  /\ FetchIdle
  /\ SchedIdle
  /\ MdIdle
  /\ ReqIdle
  /\ V2Idle
  /\ StoreInit

QChecked(res) ==
  /\ qc' = res.consensus
  /\ qres' = [res EXCEPT !.consensus = NULL]
  /\ UNCHANGED <<env_vars, checker_aside>>

QCheck == QChecked(networkstatus_check_consensus_signature(qc, Env))

QNext == QCheck

QSpec == QInit /\ [][QNext]_vars

(***************************************************************************)
(* Claims about the checker.                                               *)
(***************************************************************************)
Checked == qres # NULL

\* C3 (as stated): the checker returns all_good if n_good = |A|, else enough
\* if n_good >= Q, else need_more_certs if n_good + n_missing >= Q and
\* n_good + n_missing - n_missing_with_failed_dl >= Q, else insufficient.
C3_AsStated ==
  Checked =>
    LET Q == (qres.n_v3_authorities \div 2) + 1
    IN qres.r =
         IF qres.n_good = qres.n_v3_authorities THEN 1
         ELSE IF qres.n_good >= Q THEN 0
         ELSE IF qres.n_good + qres.n_missing_key >= Q
                 /\ qres.n_good + qres.n_missing_key - qres.n_dl_failed_key >= Q
              THEN -1
         ELSE -2

\* C3 (amended): the checker returns all_good if n_good = |A|, else enough if
\* n_good >= Q, else need_more_certs if n_good + n_missing >= Q, else
\* insufficient; certificates whose download recently failed count like any
\* other missing certificate.
C3_QuorumReturn ==
  Checked =>
    LET Q == (Cardinality(authorities) \div 2) + 1
        all == qres.n_good = Cardinality(authorities)
    IN /\ (qres.r = 1) = all
       /\ (qres.r = 0) = (~all /\ qres.n_good >= Q)
       /\ (qres.r = -1) = (~all /\ qres.n_good < Q
                             /\ qres.n_good + qres.n_missing_key >= Q)
       /\ (qres.r = -2) = (~all /\ qres.n_good + qres.n_missing_key < Q)
       /\ qres.r \in {1, 0, -1, -2}

\* C3 witness: every missing certificate belongs to an authority whose download
\* failed, the good signatures alone do not reach Q, and the checker has
\* answered need_more_certs.
C3_Witness ==
  /\ Checked
  /\ qres.n_missing_key > 0
  /\ qres.n_dl_failed_key = qres.n_missing_key
  /\ qres.n_good < (Cardinality(authorities) \div 2) + 1
  /\ qres.n_good > 0
  /\ qres.r = -1

\* Witnesses of the other three answers.
C3_WitnessEnough == Checked /\ qres.r = 0 /\ qres.n_missing_key > 0

HasFlag(voter, flag) ==
  \E i \in 1..Len(voter.sigs) :
     IF flag = "good" THEN voter.sigs[i].good_signature
     ELSE voter.sigs[i].bad_signature

HasUnchecked(voter) ==
  \E i \in 1..Len(voter.sigs) :
     ~voter.sigs[i].good_signature /\ ~voter.sigs[i].bad_signature

\* C10 (as stated): each voter is counted in the first matching bucket of
\* unknown authority, missing cert, bad, good, no signature.
C10_AsStated ==
  Checked =>
    \A i \in 1..Len(qres.heres) :
       qres.buckets[i] =
         IF qres.heres[i].unknown_here > 0 THEN "unknown"
         ELSE IF qres.heres[i].missing_key_here > 0 THEN "missing_key"
         ELSE IF qres.heres[i].bad_here > 0 THEN "bad"
         ELSE IF qres.heres[i].good_here > 0 THEN "good"
         ELSE "no_signature"

\* C10 (amended): each voter, not each signature, is counted in the first
\* matching bucket of good, bad, missing cert, unknown authority, no signature:
\* good if any of its signatures verified, else bad if any failed to verify,
\* else missing cert if it is a recognized authority with a signature that
\* could not be checked, else unknown if it has a signature, else no signature.
C10_BucketPriority ==
  Checked =>
    \A i \in 1..Len(qc.voters) :
       LET v == qc.voters[i]
           known == v.identity_digest \in authorities
       IN qres.buckets[i] =
            IF HasFlag(v, "good") THEN "good"
            ELSE IF HasFlag(v, "bad") THEN "bad"
            ELSE IF HasUnchecked(v) /\ known THEN "missing_key"
            ELSE IF HasUnchecked(v) THEN "unknown"
            ELSE "no_signature"

\* C10 witness: a voter with one signature that verified and one whose
\* certificate is missing is counted good, and a voter with one bad and one
\* good signature is counted good.
C10_Witness ==
  /\ Checked
  /\ \E i \in 1..Len(qc.voters) :
        /\ qres.heres[i].good_here > 0
        /\ qres.heres[i].missing_key_here > 0
        /\ qres.buckets[i] = "good"
  /\ \E i \in 1..Len(qc.voters) :
        /\ qres.heres[i].good_here > 0
        /\ qres.heres[i].bad_here > 0
        /\ qres.buckets[i] = "good"

(***************************************************************************)
(* Claims about the store.                                                 *)
(***************************************************************************)
Current(f) == IF f = FLAV_NS THEN current_ns_consensus ELSE current_md_consensus

Quorum == (Cardinality(authorities) \div 2) + 1

\* The main loop has just called networkstatus_set_current_consensus.
CallReturns == last.op = "none" /\ last'.op = "set_current_consensus"

\* C1: for each flavor there is one current consensus, and whenever it changes
\* the new one has a valid_after strictly greater than the one it replaces
\* (any valid_after, which is at least 1, when there was none).
C1_IncreasingValidAfter ==
  [][\A f \in Flavors :
        Current(f)' # Current(f) =>
          /\ Current(f)' # NULL
          /\ ValidAfterOf(Current(f)') > ValidAfterOf(Current(f))]_vars

\* C1 witness: a call has replaced a current consensus by a later one.
C1_Witness ==
  \E i \in DOMAIN last.calls :
     LET call == last.calls[i]
     IN /\ call.how = "installed"
        /\ call.current_valid_after > 0
        /\ call.valid_after > call.current_valid_after
        /\ Current(call.flav) # NULL
        /\ Current(call.flav).digests = call.digests

\* C2: a consensus becomes current only if the quorum check answered enough or
\* all_good on it, that is only if at least Q = floor(|A|/2)+1 recognized
\* authorities carry a good signature on it, for every size of A.
C2_InstallNeedsQuorum ==
  \A i \in DOMAIN last.calls :
     LET call == last.calls[i]
     IN call.how = "installed" =>
          /\ call.r.r \in {0, 1}
          /\ call.r.n_good >= Quorum

\* C4: a parked consensus is newer than the current consensus of its flavor,
\* or there is no current one; and an install that finds a parked consensus
\* no newer than the installed one leaves the slot empty and deletes the
\* unverified file.
C4_ParkedNewerThanCurrent ==
  /\ \A f \in Flavors :
        LET waiting == consensus_waiting_for_certs[f]
        IN waiting.consensus # NULL =>
             \/ Current(f) = NULL
             \/ waiting.consensus.valid_after > Current(f).valid_after
  /\ \A i \in DOMAIN last.calls :
        LET call == last.calls[i]
        IN (/\ call.how = "installed"
            /\ call.waiting_valid_after # 0
            /\ call.waiting_valid_after <= call.valid_after) =>
             /\ consensus_waiting_for_certs[call.flav] = EmptySlot
             /\ "unlink-unverified" \in call.wrote

\* C4 witness: an install has evicted a parked consensus that was older than
\* the installed one.
C4_Witness ==
  \E i \in DOMAIN last.calls :
     LET call == last.calls[i]
     IN /\ call.how = "installed"
        /\ call.waiting_valid_after # 0
        /\ call.waiting_valid_after < call.valid_after
        /\ "unlink-unverified" \in call.wrote
        /\ consensus_waiting_for_certs[call.flav] = EmptySlot

\* C5 (as stated): the call returns 0 exactly when it installed or parked the
\* consensus, -1 for duplicate, stale, obsolete and not wanted, and -2 for
\* unparseable bytes and for a quorum result of insufficient whatever the
\* flags are.
C5_AsStated ==
  \A i \in DOMAIN last.calls :
     LET call == last.calls[i]
     IN /\ (call.result = 0) = (call.how \in {"installed", "parked"})
        /\ call.how \in {"duplicate", "stale", "obsolete", "not-wanted"}
             => call.result = -1
        /\ (call.how = "bad-parse" \/ (call.r # NULL /\ call.r.r = -2))
             => call.result = -2

\* C5 (amended): the call returns 0 exactly when it installed or parked the
\* consensus; -1 for duplicate, stale, obsolete, not wanted, a flavor other
\* than the one insisted on, and for a quorum result of insufficient when
\* NSSET_WAS_WAITING_FOR_CERTS is set; -2 for unparseable bytes, an
\* unrecognized flavor name, and insufficient without that flag.
C5_ReturnCodes ==
  \A i \in DOMAIN last.calls :
     LET call == last.calls[i]
     IN /\ call.result \in {0, -1, -2}
        /\ (call.result = 0) = (call.how \in {"installed", "parked"})
        /\ call.how \in {"duplicate", "stale", "obsolete", "not-wanted",
                         "wrong-flavor"}
             => call.result = -1
        /\ call.how \in {"bad-parse", "unrecognized-flavor"}
             => call.result = -2
        /\ (call.r # NULL /\ call.r.r = -2)
             => call.result = IF call.was_waiting_for_certs THEN -1 ELSE -2

\* C5 witness: a consensus that can never be signed enough was handed over
\* with NSSET_WAS_WAITING_FOR_CERTS and the call returned -1.
C5_Witness ==
  \E i \in DOMAIN last.calls :
     LET call == last.calls[i]
     IN /\ call.r # NULL
        /\ call.r.r = -2
        /\ call.was_waiting_for_certs
        /\ call.result = -1

\* C6: after networkstatus_note_certs_arrived, every parked consensus that
\* passes the quorum check is the current consensus of its flavor, its slot
\* is empty and the unverified file is deleted; a parked consensus whose
\* check answers need_more_certs stays parked with the same body, set_at and
\* dl_failed.
C6_AsStated ==
  [][(last.op = "none" /\ last'.op = "note_certs_arrived") =>
       \A f \in Flavors :
          LET waiting == consensus_waiting_for_certs[f]
              chk == networkstatus_check_consensus_signature(
                       waiting.consensus, Env)
          IN waiting.consensus # NULL =>
               /\ chk.r >= 0 =>
                    /\ Current(f)' = Installed(waiting.consensus)
                    /\ consensus_waiting_for_certs'[f] = EmptySlot
                    /\ \E i \in DOMAIN last'.calls :
                          /\ last'.calls[i].flav = f
                          /\ "unlink-unverified" \in last'.calls[i].wrote
               /\ chk.r = -1 =>
                    /\ consensus_waiting_for_certs'[f].consensus # NULL
                    /\ consensus_waiting_for_certs'[f].consensus.digests
                         = waiting.consensus.digests
                    /\ consensus_waiting_for_certs'[f].body = waiting.body
                    /\ consensus_waiting_for_certs'[f].set_at = waiting.set_at
                    /\ consensus_waiting_for_certs'[f].dl_failed
                         = waiting.dl_failed]_vars

\* C7: a call with the bytes of the current consensus changes nothing: it
\* returns a negative value, at the duplicate test unless an earlier test has
\* refused the document, and the current consensus, the slots, the download
\* status, the next download time and the files are what they were.
C7_DuplicateIsNoOp ==
  [][CallReturns =>
       LET call == last'.calls[1]
       IN (call.current_digests # NULL /\ call.digests = call.current_digests)
            => /\ call.result < 0
               /\ call.how \in {"duplicate", "obsolete", "wrong-flavor"}
               /\ call.events = {}
               /\ call.wrote = {}
               /\ UNCHANGED store_vars]_vars

\* C7 witness: the bytes of the current consensus were handed over again and
\* refused as a duplicate.
C7_Witness ==
  /\ last.op = "set_current_consensus"
  /\ last.calls[1].how = "duplicate"
  /\ last.calls[1].result = -1
  /\ last.calls[1].digests = last.calls[1].current_digests
  /\ Current(last.calls[1].flav).digests = last.calls[1].digests

\* C8: a call with a consensus no newer than the current one of its flavor
\* returns a negative value before the quorum check is run, and the current
\* consensus, the slots, the nickname maps, the download status and the next
\* download time are what they were; nothing is written and no event emitted.
C8_StaleChangesNothing ==
  [][CallReturns =>
       LET call == last'.calls[1]
       IN (/\ call.digests # NULL
           /\ call.current_valid_after # 0
           /\ call.valid_after <= call.current_valid_after)
            => /\ call.result < 0
               /\ call.how \in {"stale", "duplicate", "obsolete", "wrong-flavor"}
               /\ call.r = NULL
               /\ call.events = {}
               /\ call.wrote = {}
               /\ UNCHANGED store_vars]_vars

\* C8 witness: a consensus as old as the current one, with other contents
\* and one the quorum check would accept (there is no authority to ask for),
\* was refused as stale.
C8_Witness ==
  /\ last.op = "set_current_consensus"
  /\ last.calls[1].how = "stale"
  /\ last.calls[1].valid_after = last.calls[1].current_valid_after
  /\ last.calls[1].digests # last.calls[1].current_digests
  /\ authorities = {}

\* C9 (as stated): a call parks a consensus in an occupied slot only if the
\* parked one has an earlier valid_after.
C9_AsStated ==
  \A i \in DOMAIN last.calls :
     LET call == last.calls[i]
     IN (call.how = "parked" /\ call.waiting_valid_after # 0)
          => call.waiting_valid_after < call.valid_after

\* C9 (amended): each slot holds at most one consensus; a consensus is parked
\* exactly when the quorum check answers need_more_certs, which happens only
\* when there is no current consensus of the flavor or it is newer than the
\* current one, and it then takes the slot whatever the slot held, a newer
\* parked consensus included.
C9_ParkReplaces ==
  \A i \in DOMAIN last.calls :
     LET call == last.calls[i]
     IN /\ (call.how = "parked") = (call.r # NULL /\ call.r.r = -1)
        /\ call.how = "parked" =>
             /\ call.result = 0
             /\ \/ call.current_valid_after = 0
                \/ call.valid_after > call.current_valid_after
             /\ consensus_waiting_for_certs[call.flav].consensus # NULL
             /\ consensus_waiting_for_certs[call.flav].consensus.digests
                  = call.digests

\* C9 witness: a consensus was parked over a parked consensus that was newer.
C9_Witness ==
  \E i \in DOMAIN last.calls :
     LET call == last.calls[i]
     IN /\ call.how = "parked"
        /\ call.waiting_valid_after > call.valid_after
        /\ consensus_waiting_for_certs[call.flav].consensus.digests
             = call.digests

(***************************************************************************)
(* The time of the next consensus fetch                                    *)
(* (update_consensus_networkstatus_fetch_time_impl), in seconds.           *)
(***************************************************************************)
\* Every span of 0..MaxSpan seconds is tried, and the longer ones of LongSpans.
MaxSpan == 40
LongSpans == {300, 600, 1800, 1920, 3600, 7200}
FetchSpans == (0..MaxSpan) \cup LongSpans

CONSENSUS_MIN_SECONDS_BEFORE_CACHING == 120

\* Division of C: the quotient is truncated towards zero.
CDiv(a, b) == IF a >= 0 THEN a \div b ELSE -((-a) \div b)

\* min_sec_before_caching once it is capped by interval/16.
MinSecBeforeCaching(interval) ==
  IF CONSENSUS_MIN_SECONDS_BEFORE_CACHING > CDiv(interval, 16)
  THEN CDiv(interval, 16)
  ELSE CONSENSUS_MIN_SECONDS_BEFORE_CACHING

\* directory_fetches_dir_info_early(options): start and dl_interval.
EarlyWindow(c, interval, min_sec_before_caching, extra_early) ==
  [start |-> c.fresh_until + min_sec_before_caching,
   dl_interval |->
     IF extra_early
     THEN IF min_sec_before_caching + 60 > interval
          THEN CDiv(interval, 2) ELSE 60
     ELSE CDiv(interval, 2)]

\* An ordinary client, its dl_interval computed from its start.
ClientInterval(c, start) ==
  [start |-> start, dl_interval |-> CDiv((c.valid_until - start) * 7, 8)]

ClientWindow(c, interval) ==
  ClientInterval(c, c.fresh_until + CDiv(interval * 3, 4))

\* directory_fetches_dir_info_later(options): the rest of the interval after
\* the window w of the clients, from its start.
BridgeInterval(c, start, min_sec_before_caching) ==
  [start |-> start,
   dl_interval |-> (c.valid_until - start) - min_sec_before_caching]

BridgeWindow(c, w, min_sec_before_caching) ==
  BridgeInterval(c, w.start + w.dl_interval + min_sec_before_caching,
                 min_sec_before_caching)

\* if (dl_interval < 1) dl_interval = 1;
AtLeastOne(w) ==
  [w EXCEPT !.dl_interval = IF @ < 1 THEN 1 ELSE @]

WindowOfRole(c, interval, min_sec_before_caching, options) ==
  IF options.early
  THEN EarlyWindow(c, interval, min_sec_before_caching, options.extra_early)
  ELSE IF options.later
       THEN BridgeWindow(c, ClientWindow(c, interval), min_sec_before_caching)
       ELSE ClientWindow(c, interval)

FetchWindow(c, options) ==
  AtLeastOne(WindowOfRole(c, c.fresh_until - c.valid_after,
                          MinSecBeforeCaching(c.fresh_until - c.valid_after),
                          options))

\* The two tor_assert()s on the window.
FetchAsserts(c, w) ==
  /\ c.fresh_until < w.start
  /\ w.start + w.dl_interval < c.valid_until

\* What the call leaves behind for a live consensus c and the window w: the
\* process has aborted in an assertion, or the time of the next fetch is
\* start + rand, with rand what crypto_rand_int(dl_interval) returned.
FetchScheduled(c, w, rand) ==
  [live |-> TRUE, start |-> w.start, dl_interval |-> w.dl_interval,
   aborted |-> ~FetchAsserts(c, w),
   time_to_download_next_consensus |->
     IF FetchAsserts(c, w) THEN w.start + rand ELSE 0]

FetchNow(t) ==
  [live |-> FALSE, start |-> 0, dl_interval |-> 0, aborted |-> FALSE,
   time_to_download_next_consensus |-> t]

\* The roles of a node: a cache or an authority (early), one of those that
\* fetches extra early, an ordinary client, a bridge user (later).
FetchRoles ==
  {[early |-> TRUE, extra_early |-> FALSE, later |-> FALSE],
   [early |-> TRUE, extra_early |-> TRUE, later |-> FALSE],
   [early |-> FALSE, extra_early |-> FALSE, later |-> FALSE],
   [early |-> FALSE, extra_early |-> FALSE, later |-> TRUE]}

\* Consensuses with valid_after <= fresh_until <= valid_until, and the clock
\* at the first and the last second of their life and the second after it.
FetchInputs ==
  {[valid_after |-> 1, fresh_until |-> 1 + span, valid_until |-> 1 + span + tail,
    options |-> role, now |-> IF late = 0 THEN 1 ELSE span + tail + late]
     : span \in FetchSpans, tail \in FetchSpans, role \in FetchRoles,
       late \in 0..2}

FInit ==
  /\ fetch_c \in FetchInputs
  /\ fetch_out = NULL
  /\ now = 1
  /\ authorities = {}
  /\ dl_uncertain = {}
  /\ trusted_certs = [k \in Ids \X {1} |-> 0]
  /\ use_microdescriptors = FALSE
  /\ caches_dir_info = FALSE
  /\ fetch_everything = FALSE
  /\ qc = NULL
  /\ qres = NULL
  /\ SchedIdle
  /\ MdIdle
  /\ ReqIdle
  /\ V2Idle
  /\ StoreInit

FetchTimeReturns(out) ==
  /\ fetch_out' = out
  /\ UNCHANGED <<fetch_c, fetch_aside>>

\* The call on a live consensus, with the random draw rand.
FetchTimeLive(w) ==
  /\ fetch_out = NULL
  /\ IsLive(fetch_c, fetch_c.now)
  /\ \E rand \in {0, w.dl_interval - 1} :
        /\ rand >= 0
        /\ FetchTimeReturns(FetchScheduled(fetch_c, w, rand))

\* The call without a live consensus: the fetch is due now.
FetchTimeNotLive ==
  /\ fetch_out = NULL
  /\ ~IsLive(fetch_c, fetch_c.now)
  /\ FetchTimeReturns(FetchNow(fetch_c.now))

FNext ==
  \/ FetchTimeLive(FetchWindow(fetch_c, fetch_c.options))
  \/ FetchTimeNotLive

FSpec == FInit /\ [][FNext]_vars

(***************************************************************************)
(* Claims about the time of the next fetch.                                *)
(***************************************************************************)
\* C11: for every live consensus with valid_after <= fresh_until <=
\* valid_until and every role, the computation yields dl_interval >= 1,
\* fresh_until < start and start + dl_interval < valid_until (no assertion
\* fails), and the scheduled time lies in [start, start + dl_interval),
\* after fresh_until and before valid_until.
C11_AsStated ==
  (fetch_out # NULL /\ fetch_out.live) =>
    /\ ~fetch_out.aborted
    /\ fetch_out.dl_interval >= 1
    /\ fetch_c.fresh_until < fetch_out.start
    /\ fetch_out.start + fetch_out.dl_interval < fetch_c.valid_until
    /\ fetch_out.start <= fetch_out.time_to_download_next_consensus
    /\ fetch_out.time_to_download_next_consensus
         < fetch_out.start + fetch_out.dl_interval
    /\ fetch_c.fresh_until < fetch_out.time_to_download_next_consensus
    /\ fetch_out.time_to_download_next_consensus < fetch_c.valid_until

(***************************************************************************)
(* The download scheduler (update_consensus_networkstatus_downloads): the  *)
(* main loop calls it, fetches fail or bring a document to the store.      *)
(***************************************************************************)
\* Model ticks a parked consensus is given to gain its certificates
\* (DELAY_WHILE_FETCHING_CERTS, scaled to the model clock).
DELAY_WHILE_FETCHING_CERTS == 1
\* The clock of the scheduler stops here.
MaxSchedTime == 3

\* directory_get_from_dirserver(DIR_PURPOSE_FETCH_CONSENSUS, ..., resource).
SchedLaunch(acc, i, st) ==
  [acc EXCEPT !.st = st, !.fetching = @ \cup {i}, !.launched = @ \cup {i}]

\* The variant that keeps waiting for as long as a consensus is parked.
StillGettingCerts_Always(set_at, t) == TRUE

\* We're still getting certs for this one.
StillGettingCerts(set_at, t) == set_at + DELAY_WHILE_FETCHING_CERTS > t

\* A variant that records a failure on every visit of an expired wait.
SchedLatch_EveryVisit(st, i) ==
  [st EXCEPT !.consensus_dl_status[i] = download_status_failed(@, st.now),
             !.consensus_waiting_for_certs[i].dl_failed = TRUE]

\* if (!waiting->dl_failed) { download_status_failed(...); dl_failed=1; }
SchedLatch(st, i) ==
  IF ~st.consensus_waiting_for_certs[i].dl_failed
  THEN [st EXCEPT !.consensus_dl_status[i] = download_status_failed(@, st.now),
                  !.consensus_waiting_for_certs[i].dl_failed = TRUE]
  ELSE st

SchedWaiting(acc, i, st) ==
  IF st.consensus_waiting_for_certs[i].consensus # NULL
  THEN IF StillGettingCerts(st.consensus_waiting_for_certs[i].set_at, st.now)
       THEN [acc EXCEPT !.st = st]
       ELSE SchedLaunch(acc, i, SchedLatch(st, i))
  ELSE SchedLaunch(acc, i, st)

\* The gates of flavor i once time_to_download_next_consensus[i] is settled;
\* the first of them leaves the function.
SchedDue(acc, i, st) ==
  IF st.time_to_download_next_consensus[i] > st.now
  THEN [acc EXCEPT !.st = st, !.stopped = TRUE]
  ELSE IF ~download_status_is_ready(st.consensus_dl_status[i], st.now,
                                    CONSENSUS_NETWORKSTATUS_MAX_DL_TRIES)
       THEN [acc EXCEPT !.st = st]
       ELSE IF i \in acc.fetching
            THEN [acc EXCEPT !.st = st]
            ELSE SchedWaiting(acc, i, st)

\* No live consensus? Get one now!
SchedNoLive(st, i) ==
  IF ~IsLive(networkstatus_get_latest_consensus_by_flavor(st, i), st.now)
  THEN [st EXCEPT !.time_to_download_next_consensus[i] = st.now]
  ELSE st

SchedOneFlavor(acc, i) ==
  IF acc.stopped \/ ~we_want_to_fetch_flavor(acc.st, i) THEN acc
  ELSE SchedDue(acc, i, SchedNoLive(acc.st, i))

RECURSIVE SchedLoop(_, _)
SchedLoop(acc, i) ==
  IF i >= N_CONSENSUS_FLAVORS THEN acc
  ELSE SchedLoop(SchedOneFlavor(acc, i), i + 1)

\* The state it leaves, the fetches in progress and those it launched.
update_consensus_networkstatus_downloads(st, inflight) ==
  SchedLoop([st |-> st, fetching |-> inflight, launched |-> {},
             stopped |-> FALSE], 0)

\* A variant that retries without noting the failure.
networkstatus_consensus_download_failed_Unnoted(st, inflight, flavname) ==
  IF networkstatus_parse_flavor_name(flavname) >= 0
  THEN update_consensus_networkstatus_downloads(st, inflight)
  ELSE [st |-> st, fetching |-> inflight, launched |-> {}, stopped |-> FALSE]

\* networkstatus_consensus_download_failed(status_code, flavname), called
\* once the connection of the fetch is gone.
networkstatus_consensus_download_failed(st, inflight, flavname) ==
  IF networkstatus_parse_flavor_name(flavname) >= 0
  THEN update_consensus_networkstatus_downloads(
         [st EXCEPT !.consensus_dl_status[networkstatus_parse_flavor_name(flavname)] =
                       download_status_failed(@, st.now)],
         inflight)
  ELSE [st |-> st, fetching |-> inflight, launched |-> {}, stopped |-> FALSE]

SchedReturns(op, flav, acc) ==
  /\ StoreBecomes(acc.st)
  /\ fetching' = acc.fetching
  /\ last' = [op |-> op, calls |-> <<[flav |-> flav, launched |-> acc.launched]>>]

\* update_networkstatus_downloads(now), from the main loop.
UpdateDownloads ==
  /\ ~crashed
  /\ last = NoCall
  /\ SchedReturns("update_downloads", -1,
                  update_consensus_networkstatus_downloads(St, fetching))
  /\ UNCHANGED <<env_vars, checker_vars, fetch_vars, md_vars, req_vars,
                 v2_vars, n_docs>>

\* The fetch of a flavor fails.
ConsensusDownloadFailed(f) ==
  /\ ~crashed
  /\ last = NoCall
  /\ f \in fetching
  /\ SchedReturns("download_failed", f,
                  networkstatus_consensus_download_failed(
                    St, fetching \ {f}, networkstatus_get_flavor_name(f)))
  /\ UNCHANGED <<env_vars, checker_vars, fetch_vars, md_vars, req_vars,
                 v2_vars, n_docs>>

\* The fetch of a flavor brings a consensus of that flavor to the store.
ConsensusFetched(consensus) ==
  /\ ~crashed
  /\ last = NoCall
  /\ consensus.flavor \in fetching
  /\ n_docs < MaxDocs
  /\ n_docs' = n_docs + 1
  /\ fetching' = fetching \ {consensus.flavor}
  /\ SetCurrentReturns(networkstatus_set_current_consensus(
                         St, consensus,
                         networkstatus_get_flavor_name(consensus.flavor),
                         {}, FALSE, FALSE))
  /\ UNCHANGED <<env_vars, checker_vars, fetch_vars, md_vars, req_vars,
                 v2_vars>>

ClockAdvances ==
  /\ ~crashed
  /\ last = NoCall
  /\ now < MaxSchedTime
  /\ now' = now + 1
  /\ UNCHANGED <<last, authorities, trusted_certs, dl_uncertain,
                 use_microdescriptors, caches_dir_info, fetch_everything,
                 store_aside, store_vars, n_docs>>

\* One authority is configured; its certificate is not there yet.
DInit ==
  /\ now = 1
  /\ authorities = {1}
  /\ dl_uncertain = {}
  /\ trusted_certs = [k \in Ids \X {1} |-> 0]
  /\ use_microdescriptors \in BOOLEAN
  /\ caches_dir_info \in BOOLEAN
  /\ fetch_everything = FALSE
  /\ qc = NULL
  /\ qres = NULL
  /\ FetchIdle
  /\ SchedIdle
  /\ MdIdle
  /\ ReqIdle
  /\ V2Idle
  /\ StoreInit

\* The documents the directory servers answer with bear signatures that verify.
SchedDocs == {d \in StoreDocs : d.voters[1].sigs[1].verifies}

DNext ==
  \/ UpdateDownloads
  \/ \E f \in Flavors : ConsensusDownloadFailed(f)
  \/ \E consensus \in SchedDocs : ConsensusFetched(consensus)
  \/ CertArrives(1, 1, MaxSchedTime)
  \/ NoteCertsArrived
  \/ ClockAdvances
  \/ ReturnToMainLoop

DSpec == DInit /\ [][DNext]_vars

(***************************************************************************)
(* The scheduler under a fair main loop.  Some download failures are on    *)
(* record when the behaviour starts; the ns consensuses are signed with    *)
(* the key whose certificate can arrive, the microdesc ones with a key     *)
(* whose certificate never does.  Documents are fetched early enough for   *)
(* the clock of the model to outlast the delay and the backoff.            *)
(***************************************************************************)
MaxLiveTime == MaxValidAfter + MaxLifetime + 1
MaxParkTime == MaxLiveTime - 2

\* The status after k failures in a row at time t.
RECURSIVE FailedTimes(_, _)
FailedTimes(k, t) ==
  IF k = 0 THEN [n_download_failures |-> 0, next_attempt_at |-> 0]
  ELSE download_status_failed(FailedTimes(k - 1, t), t)

\* The numbers of failures on record at the start.
FailureCounts ==
  {0, 1, CONSENSUS_NETWORKSTATUS_MAX_DL_TRIES, MaxDownloadFailures}

\* The documents of a flavor, all signed by authority 1 with the key of the
\* flavor.
LiveDocsOf(f, lives) ==
  {[flavor |-> f, valid_after |-> va, valid_until |-> va + life,
    routerstatus_list |-> <<>>,
    voters |-> [i \in Ids |->
                  [identity_digest |-> i,
                   sigs |-> <<[signing_key_digest |-> f + 1,
                               verifies |-> TRUE]>>]]]
     : va \in 1..MaxValidAfter, life \in lives}

LiveDocs ==
  LiveDocsOf(FLAV_NS, 0..MaxLifetime) \cup LiveDocsOf(FLAV_MICRODESC, {MaxLifetime})

LInit ==
  /\ now = 1
  /\ authorities = {1}
  /\ dl_uncertain = {}
  /\ trusted_certs = [k \in Ids \X Keys |-> 0]
  /\ use_microdescriptors \in BOOLEAN
  /\ caches_dir_info \in BOOLEAN
  /\ fetch_everything = FALSE
  /\ qc = NULL
  /\ qres = NULL
  /\ FetchIdle
  /\ SchedIdle
  /\ MdIdle
  /\ ReqIdle
  /\ V2Idle
  /\ current_ns_consensus = NULL
  /\ current_md_consensus = NULL
  /\ consensus_waiting_for_certs = [f \in Flavors |-> EmptySlot]
  /\ \E k \in FailureCounts :
        consensus_dl_status = [f \in Flavors |-> FailedTimes(k, 0)]
  /\ time_to_download_next_consensus = [f \in Flavors |-> 0]
  /\ named_server_map = NULL
  /\ unnamed_server_map = NULL
  /\ crashed = FALSE
  /\ last = NoCall
  /\ n_docs = 0

LiveClockAdvances ==
  /\ ~crashed
  /\ last = NoCall
  /\ now < MaxLiveTime
  /\ now' = now + 1
  /\ UNCHANGED <<last, authorities, trusted_certs, dl_uncertain,
                 use_microdescriptors, caches_dir_info, fetch_everything,
                 store_aside, store_vars, n_docs>>

LiveFetched(consensus) ==
  /\ now <= MaxParkTime
  /\ ConsensusFetched(consensus)

LNext ==
  \/ UpdateDownloads
  \/ \E f \in Flavors : ConsensusDownloadFailed(f)
  \/ \E consensus \in LiveDocs : LiveFetched(consensus)
  \/ CertArrives(1, 1, MaxLiveTime)
  \/ NoteCertsArrived
  \/ LiveClockAdvances
  \/ ReturnToMainLoop

\* The main loop is between two calls.
MainLoopIdle == last = NoCall /\ ~crashed

TickTaken == last = NoCall /\ last'.op = "update_downloads"

SecondPassed == now' = now + 1

\* SF_vars(UpdateDownloads): the main loop runs the scheduler again and
\* again.  The action is enabled exactly when the main loop is idle, and it
\* is the one step that leaves a call of "update_downloads" behind.
FairScheduler == ([]<><<TickTaken>>_vars) \/ <>[]~MainLoopIdle

\* SF_vars(LiveClockAdvances): time passes, up to the end of the clock.
FairClock ==
  ([]<><<SecondPassed>>_vars) \/ <>[](~MainLoopIdle \/ now >= MaxLiveTime)

LSpec ==
  /\ LInit
  /\ [][LNext]_vars
  /\ FairScheduler
  /\ FairClock
  /\ WF_vars(ReturnToMainLoop)

(***************************************************************************)
(* Claims about the download scheduler.                                    *)
(***************************************************************************)
\* The main loop calls update_consensus_networkstatus_downloads.
SchedTickStep == last.op = "none" /\ last'.op = "update_downloads"

\* The flavors the call launched a fetch for.
Launched == last'.calls[1].launched

Wanted(f) == we_want_to_fetch_flavor(St, f)

\* The gates of a flavor, each on its own, as the call finds them.
DueGate(f) == SchedNoLive(St, f).time_to_download_next_consensus[f] <= now

ReadyGate(f) ==
  download_status_is_ready(consensus_dl_status[f], now,
                           CONSENSUS_NETWORKSTATUS_MAX_DL_TRIES)

IdleGate(f) == f \notin fetching

Parked(f) == consensus_waiting_for_certs[f].consensus # NULL

SlotGate(f) ==
  ~Parked(f)
  \/ consensus_waiting_for_certs[f].set_at + DELAY_WHILE_FETCHING_CERTS <= now

\* C12: on each scheduler tick, for each wanted flavor independently, a
\* fetch is initiated if and only if the flavor is due, no fetch for it is in
\* flight, its dl_status is ready and its cert-waiting slot is empty or was
\* parked at least DELAY_WHILE_FETCHING_CERTS ago; a flavor that is not yet
\* due does not prevent the fetch of another flavor in the same tick.
C12_AsStated ==
  [][SchedTickStep =>
       \A f \in Flavors :
          Wanted(f) =>
            ((f \in Launched) <=>
               (DueGate(f) /\ IdleGate(f) /\ ReadyGate(f) /\ SlotGate(f)))]_vars

\* C13: while a consensus is parked for a flavor and the delay has not
\* passed, no tick launches a fetch for the flavor and dl_failed stays 0; the
\* first tick after the delay that passes the other gates sets dl_failed and
\* launches a fetch; parking a consensus sets set_at to the time of parking
\* and dl_failed to 0.
C13_AsStated ==
  [][/\ SchedTickStep =>
          \A f \in Flavors :
             /\ (Parked(f) /\ ~SlotGate(f)) =>
                   /\ f \notin Launched
                   /\ ~consensus_waiting_for_certs[f].dl_failed
                   /\ ~consensus_waiting_for_certs'[f].dl_failed
             /\ (/\ Parked(f) /\ SlotGate(f)
                 /\ ~consensus_waiting_for_certs[f].dl_failed
                 /\ Wanted(f) /\ DueGate(f) /\ IdleGate(f) /\ ReadyGate(f)) =>
                   /\ f \in Launched
                   /\ consensus_waiting_for_certs'[f].dl_failed
     /\ (last.op = "none" /\ last'.op = "set_current_consensus"
         /\ last'.calls[1].how = "parked") =>
           /\ consensus_waiting_for_certs'[last'.calls[1].flav].set_at = now
           /\ ~consensus_waiting_for_certs'[last'.calls[1].flav].dl_failed]_vars

\* The call that has just returned launched a fetch for the flavor.
JustLaunched(f) ==
  /\ last.op \in {"update_downloads", "download_failed"}
  /\ f \in last.calls[1].launched

\* No fetch of the flavor is in progress, and the time of its next try is
\* within the clock of the model.
Room(f) ==
  /\ f \notin fetching
  /\ consensus_dl_status[f].next_attempt_at <= MaxLiveTime

NumHeads == 3
\* Number of distinct 12-byte rests.
NumRests == 2
\* Most entries of a requested-digest list, and of a batch of descriptors.
MaxBatch == 2

ReqDigests == (1..NumHeads) \X (1..NumRests)

\* digestmap_new(): no key is set.
digestmap_new == [head \in 0..NumHeads |-> 0]

\* digestmap_set(map, key, val): the key is the DIGEST_LEN bytes at key.
digestmap_set(map, key, val) == [map EXCEPT ![key[1]] = val]

\* digestmap_get(map, key): the value set for the DIGEST_LEN bytes at key.
digestmap_get(map, key) == map[key[1]]

\* if (digestmap_get(requested, md->digest))
RequestedHit(map, requested_digests256, digest) ==
  digestmap_get(map, digest) # 0

\* smartlist_del(sl, idx): the last element moves into the place of the
\* element removed.
smartlist_del(sl, idx) ==
  IF idx = Len(sl) THEN SubSeq(sl, 1, Len(sl) - 1)
  ELSE [SubSeq(sl, 1, Len(sl) - 1) EXCEPT ![idx] = sl[Len(sl)]]

\* SMARTLIST_FOREACH(requested_digests256, cp, digestmap_set(requested, cp, 1))
RECURSIVE RequestedMap(_, _, _)
RequestedMap(requested_digests256, i, map) ==
  IF i > Len(requested_digests256) THEN map
  ELSE RequestedMap(requested_digests256, i + 1,
                    digestmap_set(map, requested_digests256[i], 1))

\* The loop over the parsed descriptors: one that was asked for is marked 2
\* in the map, any other is freed and taken off the list.
RECURSIVE KeepRequested(_, _, _, _, _)
KeepRequested(descriptors, i, map, requested_digests256, freed) ==
  IF i > Len(descriptors)
  THEN [descriptors |-> descriptors, requested |-> map, freed |-> freed]
  ELSE IF RequestedHit(map, requested_digests256, descriptors[i].digest)
  THEN KeepRequested(descriptors, i + 1,
                     digestmap_set(map, descriptors[i].digest, 2),
                     requested_digests256, freed)
  ELSE KeepRequested(smartlist_del(descriptors, i), i, map,
                     requested_digests256, Append(freed, descriptors[i]))

\* The loop over requested_digests256: a digest marked 2 is taken off.
RECURSIVE StillMissing(_, _, _)
StillMissing(requested_digests256, i, map) ==
  IF i > Len(requested_digests256) THEN requested_digests256
  ELSE IF digestmap_get(map, requested_digests256[i]) = 2
  THEN StillMissing(smartlist_del(requested_digests256, i), i, map)
  ELSE StillMissing(requested_digests256, i + 1, map)

FilterReturns(kept, requested_digests256) ==
  [descriptors |-> kept.descriptors,
   freed |-> kept.freed,
   requested_digests256 |->
     [list |-> StillMissing(requested_digests256, 1, kept.requested)]]

\* Lines 161-183 of microdescs_add_to_cache: what is left of the parsed
\* descriptors and of the requested list, and what was freed.
FilterRequested(descriptors, requested_digests256) ==
  IF requested_digests256 = NULL
  THEN [descriptors |-> descriptors, freed |-> <<>>,
        requested_digests256 |-> NULL]
  ELSE FilterReturns(
         KeepRequested(descriptors, 1,
                       RequestedMap(requested_digests256.list, 1,
                                    digestmap_new),
                       requested_digests256.list, <<>>),
         requested_digests256.list)

Range(seq) == {seq[i] : i \in 1..Len(seq)}

\* Lists of at most n elements of S.
ListsOf(S, n) == UNION {[1..k -> S] : k \in 0..n}

\* Lists without repetition.
Distinct(seq) == Cardinality(Range(seq)) = Len(seq)

\* The requested lists: none (a null pointer), or a smartlist of up to
\* MaxBatch digests, each once.
RequestedLists ==
  {NULL} \cup {[list |-> r] : r \in {q \in ListsOf(ReqDigests, MaxBatch) : Distinct(q)}}

\* A descriptor as the parser hands it over.
Parsed(digest) == [digest |-> digest]

\* The batches a directory server can answer with: one descriptor or more.
ReqBatches ==
  {[i \in 1..Len(b) |-> Parsed(b[i])] : b \in ListsOf(ReqDigests, MaxBatch) \ {<<>>}}

RInit ==
  /\ req_c \in [requested_digests256 : RequestedLists, descriptors : ReqBatches]
  /\ req_out = NULL
  /\ now = 1
  /\ authorities = {}
  /\ dl_uncertain = {}
  /\ trusted_certs = [k \in Ids \X {1} |-> 0]
  /\ use_microdescriptors = FALSE
  /\ caches_dir_info = FALSE
  /\ fetch_everything = FALSE
  /\ qc = NULL
  /\ qres = NULL
  /\ FetchIdle
  /\ SchedIdle
  /\ MdIdle
  /\ V2Idle
  /\ StoreInit

\* The filter runs on what was handed over.
RequestedFiltered ==
  /\ req_out = NULL
  /\ req_out' = FilterRequested(req_c.descriptors, req_c.requested_digests256)
  /\ UNCHANGED <<req_c, env_vars, checker_vars, store_vars, last, n_docs,
                 fetch_vars, sched_vars, md_vars, v2_vars>>

RNext == RequestedFiltered

RSpec == RInit /\ [][RNext]_vars

\* The digests of a list of descriptors.
DigestsOf(descriptors) == {descriptors[i].digest : i \in 1..Len(descriptors)}

\* How often a digest occurs in a list of descriptors.
Occurs(descriptors, digest) ==
  Cardinality({i \in 1..Len(descriptors) : descriptors[i].digest = digest})

\* C19: given a requested-digest list R and a batch D, exactly the
\* descriptors of D whose digest is in R go on to insertion, every descriptor
\* of D whose digest is not in R is dropped, and afterwards R holds exactly the
\* requested digests that did not appear in D.
C19_AsStated ==
  (req_out # NULL /\ req_c.requested_digests256 # NULL) =>
     /\ \A d \in ReqDigests :
          /\ Occurs(req_out.descriptors, d) =
               IF d \in Range(req_c.requested_digests256.list)
               THEN Occurs(req_c.descriptors, d) ELSE 0
          /\ Occurs(req_out.freed, d) =
               IF d \in Range(req_c.requested_digests256.list)
               THEN 0 ELSE Occurs(req_c.descriptors, d)
     /\ Range(req_out.requested_digests256.list) =
          Range(req_c.requested_digests256.list)
            \ DigestsOf(req_c.descriptors)
     /\ Distinct(req_out.requested_digests256.list)

(***************************************************************************)
(* The cache proper.  A file is the list of the chunks written to it: for  *)
(* each descriptor its annotation, if it has one, and the bytes of its     *)
(* body that reached the file.  A body is on the heap, or at a position of *)
(* the mapped cache file, or at a position of a mapping that is gone.      *)
(***************************************************************************)
\* Number of distinct microdescriptors the cache is given.
NumMds == 2
\* Number of nodes of the node list.
NumNodes == 1
\* Last value of the clock in the runs of the cache.
MaxMdTime == 3
\* Most calls into the cache in one run.
MaxMdOps == 3
\* TOLERATE_MICRODESC_AGE (7*24*60*60), in model ticks.
TOLERATE_MICRODESC_AGE == 1
\* REASONABLY_LIVE_TIME (24*60*60), in model ticks.
REASONABLY_LIVE_TIME == 1
\* The journal length (16384) below which a rebuild is not worth it, in
\* model bytes.
MinJournalLen == 2

MdDigests == {<<h, 1>> : h \in 1..NumMds}
Nodes == 1..NumNodes

SAVED_NOWHERE == "SAVED_NOWHERE"
SAVED_IN_CACHE == "SAVED_IN_CACHE"
SAVED_IN_JOURNAL == "SAVED_IN_JOURNAL"

Heap == [mem |-> "heap", pos |-> 0]
Mapped(pos) == [mem |-> "mmap", pos |-> pos]

\* md->bodylen: the length of the body that has this digest.
BodyLen(digest) == digest[1]

\* strlen("@last-listed <time>\n") when md->last_listed is set, in model bytes.
AnnotationLen(last_listed) == IF last_listed # 0 THEN 1 ELSE 0

ChunkSize(chunk) == AnnotationLen(chunk.last_listed) + chunk.len

RECURSIVE FileSize(_)
FileSize(chunks) ==
  IF chunks = <<>> THEN 0
  ELSE ChunkSize(Head(chunks)) + FileSize(Tail(chunks))

\* Where the body of the k-th chunk starts.
BodyPos(chunks, k) ==
  FileSize(SubSeq(chunks, 1, k - 1)) + AnnotationLen(chunks[k].last_listed)

\* The bytes of a whole descriptor, as they come from a directory server.
Downloaded(digest) ==
  [digest |-> digest, last_listed |-> 0, len |-> BodyLen(digest)]

\* The descriptor the parser makes of the k-th chunk of a string.
ParsedMd(chunks, k, allow_annotations, copy_body) ==
  [digest |-> chunks[k].digest,
   last_listed |-> IF allow_annotations THEN chunks[k].last_listed ELSE 0,
   saved_location |-> SAVED_NOWHERE,
   no_save |-> FALSE,
   held_in_map |-> FALSE,
   held_by_nodes |-> 0,
   body |-> IF copy_body THEN Heap ELSE Mapped(BodyPos(chunks, k)),
   off |-> BodyPos(chunks, k),
   bodylen |-> chunks[k].len]

\* microdescs_parse_from_string: one descriptor for each chunk whose body is
\* all there.
RECURSIVE microdescs_parse_from_string(_, _, _, _)
microdescs_parse_from_string(chunks, k, allow_annotations, copy_body) ==
  IF k > Len(chunks) THEN <<>>
  ELSE IF chunks[k].len = BodyLen(chunks[k].digest)
  THEN <<ParsedMd(chunks, k, allow_annotations, copy_body)>>
         \o microdescs_parse_from_string(chunks, k + 1, allow_annotations,
                                         copy_body)
  ELSE microdescs_parse_from_string(chunks, k + 1, allow_annotations,
                                    copy_body)

\* dump_microdescriptor: the annotation is written when last_listed is set,
\* md->off is where the body starts, and the body follows unless the write
\* fails.
dump_microdescriptor(file, md, fails) ==
  [file |-> IF fails /\ md.last_listed = 0 THEN file
            ELSE Append(file, [digest |-> md.digest,
                               last_listed |-> md.last_listed,
                               len |-> IF fails THEN 0 ELSE md.bodylen]),
   size |-> IF fails THEN -1
            ELSE AnnotationLen(md.last_listed) + md.bodylen,
   annotation_len |-> AnnotationLen(md.last_listed),
   off |-> FileSize(file) + AnnotationLen(md.last_listed)]

\* The cache that get_microdesc_cache allocates.
EmptyCache ==
  [map |-> <<>>, cache_content |-> NULL, journal_len |-> 0,
   bytes_dropped |-> 0, total_len_seen |-> 0, n_seen |-> 0]

\* HT_FIND(microdesc_map, &cache->map, md): the place of the entry whose
\* digest equals md->digest (_microdesc_eq), 0 if there is none.
HT_FIND(map, md) ==
  IF \E i \in 1..Len(map) : map[i].digest = md.digest
  THEN CHOOSE i \in 1..Len(map) :
         /\ map[i].digest = md.digest
         /\ \A j \in 1..(i - 1) : map[j].digest # md.digest
  ELSE 0

\* HT_REMOVE of the very descriptor md.
HT_REMOVE(map, md) == SelectSeq(map, LAMBDA e : e # md)

\* The node whose consensus entry lists the digest points at no descriptor
\* any more.
NodesForget(nodes, digest) ==
  [n \in DOMAIN nodes |->
     IF nodes[n] = [digest |-> digest] THEN NULL ELSE nodes[n]]

\* microdesc_free: a descriptor still held in the map or by nodes is taken
\* out of them first; then it is freed.
microdesc_free(w, md) ==
  [w EXCEPT !.cache.map = IF md.held_in_map THEN HT_REMOVE(@, md) ELSE @,
            !.nodes = IF md.held_by_nodes # 0
                      THEN NodesForget(@, md.digest) ELSE @,
            !.freed = Append(@, md)]

RECURSIVE FreeAll(_, _, _)
FreeAll(w, mds, i) ==
  IF i > Len(mds) THEN w ELSE FreeAll(microdesc_free(w, mds[i]), mds, i + 1)

\* The digest the consensus lists for a node.
NodeListed(n) == <<n, 1>>

\* nodelist_add_microdesc: the node whose consensus entry lists the digest
\* points at the descriptor, which counts the node.
nodelist_add_microdesc(w, digest) ==
  IF \E n \in Nodes : NodeListed(n) = digest /\ w.nodes[n] = NULL
  THEN [w EXCEPT
          !.nodes = [n \in Nodes |->
                       IF NodeListed(n) = digest THEN [digest |-> digest]
                       ELSE @[n]],
          !.cache.map = [i \in 1..Len(@) |->
                           IF @[i].digest = digest
                           THEN [@[i] EXCEPT !.held_by_nodes = @ + 1]
                           ELSE @[i]]]
  ELSE w

RECURSIVE NodelistAddAll(_, _, _)
NodelistAddAll(w, added, i) ==
  IF i > Len(added) THEN w
  ELSE NodelistAddAll(nodelist_add_microdesc(w, added[i]), added, i + 1)

\* We already had this one.
AddDuplicate(acc, md, found, where) ==
  [acc EXCEPT
     !.w = microdesc_free(
             [@ EXCEPT !.cache.map[found].last_listed =
                          IF @ < md.last_listed THEN md.last_listed ELSE @,
                       !.cache.bytes_dropped =
                          IF where # SAVED_NOWHERE THEN @ + acc.size ELSE @],
             md)]

\* The variant that inserts without setting held_in_map.
AddInsert_Unheld(acc, md, no_save) ==
  [acc EXCEPT
     !.w.cache.map = Append(@, [md EXCEPT !.no_save = no_save]),
     !.added = Append(@, md.digest),
     !.w.cache.n_seen = @ + 1,
     !.w.cache.total_len_seen = @ + md.bodylen]

\* md->no_save = no_save; HT_INSERT; md->held_in_map = 1; ...
AddInsert(acc, md, no_save) ==
  [acc EXCEPT
     !.w.cache.map = Append(@, [md EXCEPT !.no_save = no_save,
                                          !.held_in_map = TRUE]),
     !.added = Append(@, md.digest),
     !.w.cache.n_seen = @ + 1,
     !.w.cache.total_len_seen = @ + md.bodylen]

\* Okay, it's a new one, and the journal is open.
AddToJournal(acc, md, dumped, no_save) ==
  IF dumped.size < 0
  THEN [acc EXCEPT !.w.journal_file = dumped.file,
                   !.added = <<>>,
                   !.aborted = TRUE]
  ELSE AddInsert([acc EXCEPT !.w.journal_file = dumped.file,
                             !.w.cache.journal_len = @ + dumped.size,
                             !.size = dumped.size,
                             !.dumps = @ + 1],
                 [md EXCEPT !.off = dumped.off,
                            !.saved_location = SAVED_IN_JOURNAL],
                 no_save)

AddOne(acc, md, found, where, no_save, io) ==
  IF found # 0 THEN AddDuplicate(acc, md, found, where)
  ELSE IF acc.f
  THEN AddToJournal(acc, md,
                    dump_microdescriptor(acc.w.journal_file, md,
                                         acc.dumps + 1 = io.fail_at),
                    no_save)
  ELSE AddInsert(acc, [md EXCEPT !.saved_location = where], no_save)

RECURSIVE AddLoop(_, _, _, _, _, _)
AddLoop(acc, descriptors, i, where, no_save, io) ==
  IF i > Len(descriptors) \/ acc.aborted THEN acc
  ELSE AddLoop(AddOne(acc, descriptors[i],
                      HT_FIND(acc.w.cache.map, descriptors[i]),
                      where, no_save, io),
               descriptors, i + 1, where, no_save, io)

\* What follows the loop: the node list hears of the added descriptors when
\* the latest consensus is of the microdesc flavor.
AddFinish(acc, st) ==
  IF acc.aborted THEN [w |-> acc.w, added |-> [list |-> <<>>]]
  ELSE [w |-> IF current_consensus(st) # NULL
                 /\ current_consensus(st).flavor = FLAV_MICRODESC
              THEN NodelistAddAll(acc.w, acc.added, 1)
              ELSE acc.w,
        added |-> [list |-> acc.added]]

microdescs_add_list_to_cache(w, st, descriptors, where, no_save, io) ==
  IF where = SAVED_NOWHERE /\ ~no_save /\ ~io.opens
  THEN [w |-> w, added |-> NULL]
  ELSE AddFinish(
         AddLoop([w |-> w, added |-> <<>>, size |-> 0, dumps |-> 0,
                  aborted |-> FALSE,
                  f |-> where = SAVED_NOWHERE /\ ~no_save],
                 descriptors, 1, where, no_save, io),
         st)

\* if (listed_at > 0) md->last_listed = listed_at, for every descriptor.
ListedAt(descriptors, listed_at) ==
  IF listed_at > 0
  THEN [i \in 1..Len(descriptors) |->
          [descriptors[i] EXCEPT !.last_listed = listed_at]]
  ELSE descriptors

AddFiltered(w, st, filtered, where, no_save, io) ==
  [res |-> microdescs_add_list_to_cache(FreeAll(w, filtered.freed, 1), st,
                                        filtered.descriptors, where, no_save,
                                        io),
   requested_digests256 |-> filtered.requested_digests256]

microdescs_add_to_cache(w, st, s, where, no_save, listed_at, requested_digests256, io) ==
  AddFiltered(w, st,
              FilterRequested(
                ListedAt(microdescs_parse_from_string(
                           s, 1, where # SAVED_NOWHERE,
                           where # SAVED_IN_CACHE),
                         listed_at),
                requested_digests256),
              where, no_save, io)

\* The consensus c of a flavor, if it is valid or expired for no longer than
\* REASONABLY_LIVE_TIME at time t.
ReasonablyLive(c, t) ==
  IF c # NULL /\ c.valid_after <= t
     /\ t <= c.valid_until + REASONABLY_LIVE_TIME
  THEN c ELSE NULL

networkstatus_get_reasonably_live_consensus(st, t, flavor) ==
  ReasonablyLive(networkstatus_get_latest_consensus_by_flavor(st, flavor), t)

\* The entry leaves the map, with held_in_map cleared, and is freed.
RemoveAndFree(w, victim) ==
  microdesc_free([w EXCEPT !.cache.map = HT_REMOVE(@, victim)],
                 [victim EXCEPT !.held_in_map = FALSE])

RECURSIVE RemoveAll(_, _, _)
RemoveAll(w, victims, i) ==
  IF i > Len(victims) THEN w
  ELSE RemoveAll(RemoveAndFree(w, victims[i]), victims, i + 1)

RECURSIVE BodyBytes(_)
BodyBytes(mds) ==
  IF mds = <<>> THEN 0 ELSE Head(mds).bodylen + BodyBytes(Tail(mds))

\* if (cutoff <= 0) cutoff = now - TOLERATE_MICRODESC_AGE;
CleanCutoff(cutoff, t) ==
  IF cutoff <= 0 THEN t - TOLERATE_MICRODESC_AGE ELSE cutoff

\* if ((*mdp)->last_listed < cutoff)
TooOld(md, cutoff) == md.last_listed < cutoff

CleanOld(w, victims) ==
  IF victims = <<>> THEN w
  ELSE [RemoveAll(w, victims, 1) EXCEPT
          !.cache.bytes_dropped = @ + BodyBytes(victims)]

\* The variant that cleans only with a consensus that has not expired.
CleanSkips_Live(st, force) ==
  /\ ~force
  /\ ~(/\ st.current_md_consensus # NULL
       /\ st.current_md_consensus.valid_after <= st.now
       /\ st.now <= st.current_md_consensus.valid_until)

\* if (! force && ! networkstatus_get_reasonably_live_consensus(now, ...))
CleanSkips(st, force) ==
  /\ ~force
  /\ networkstatus_get_reasonably_live_consensus(st, st.now, FLAV_MICRODESC)
       = NULL

microdesc_cache_clean(w, st, cutoff, force) ==
  IF CleanSkips(st, force) THEN w
  ELSE CleanOld(w, SelectSeq(w.cache.map,
                             LAMBDA md : TooOld(md, CleanCutoff(cutoff, st.now))))

microdesc_cache_clear(w) ==
  [RemoveAll(w, w.cache.map, 1) EXCEPT
     !.cache.map = <<>>,
     !.cache.cache_content = NULL,
     !.cache.total_len_seen = 0,
     !.cache.n_seen = 0,
     !.cache.bytes_dropped = 0]

\* cache->cache_content ? cache->cache_content->size : 0
OldLen(cache) ==
  IF cache.cache_content # NULL THEN cache.cache_content.size ELSE 0

\* The variant that does not look at bytes_dropped.
should_rebuild_md_cache_JournalOnly(cache) ==
  IF cache.journal_len < MinJournalLen THEN FALSE
  ELSE cache.journal_len > CDiv(OldLen(cache), 2)

should_rebuild_md_cache(cache) ==
  IF cache.journal_len < MinJournalLen THEN FALSE
  ELSE IF cache.bytes_dropped > CDiv(cache.journal_len + OldLen(cache), 3)
  THEN TRUE
  ELSE cache.journal_len > CDiv(OldLen(cache), 2)

\* tor_mmap_file: the bytes of the file as they are now; no mapping of an
\* empty or missing file, or when the call fails.
tor_mmap_file(file, maps) ==
  IF maps /\ FileSize(file) > 0
  THEN [data |-> file, size |-> FileSize(file)]
  ELSE NULL

\* tor_munmap_file: a body that pointed into the mapping points nowhere.
Unmap(md) ==
  IF md.body # NULL /\ md.body.mem = "mmap"
  THEN [md EXCEPT !.body.mem = "unmapped"] ELSE md

UnmapAll(map) == [i \in 1..Len(map) |-> Unmap(map[i])]

\* The entry was written: it lives in the cache file from now on.
RebuildWrote(acc, i, md, dumped) ==
  [acc EXCEPT
     !.w.cache.map[i] =
        [md EXCEPT !.off = acc.off + dumped.annotation_len,
                   !.body = IF md.saved_location # SAVED_IN_CACHE
                            THEN NULL ELSE @,
                   !.saved_location = SAVED_IN_CACHE],
     !.f = dumped.file,
     !.off = @ + dumped.size,
     !.dumps = @ + 1,
     !.wrote = Append(@, i)]

\* The write failed: the loop goes on with the next entry.
RebuildFailed(acc, i, dumped) ==
  [acc EXCEPT !.w.cache.map[i].off = dumped.off,
              !.f = dumped.file,
              !.dumps = @ + 1]

RebuildOne(acc, i, md, dumped) ==
  IF md.no_save THEN acc
  ELSE IF dumped.size < 0 THEN RebuildFailed(acc, i, dumped)
  ELSE RebuildWrote(acc, i, md, dumped)

RECURSIVE RebuildLoop(_, _, _)
RebuildLoop(acc, i, io) ==
  IF i > Len(acc.w.cache.map) THEN acc
  ELSE RebuildLoop(
         RebuildOne(acc, i, acc.w.cache.map[i],
                    dump_microdescriptor(acc.f, acc.w.cache.map[i],
                                         acc.dumps + 1 = io.fail_at)),
         i + 1, io)

\* A body starts at the position of the mapped file ("onion-key").
OnionKeyAt(content, pos) ==
  \E k \in 1..Len(content.data) :
     content.data[k].len >= 1 /\ BodyPos(content.data, k) = pos

\* md->body = cache_content->data + md->off, for every entry written; the
\* process stops on the assertion when no body starts there.
Rebind(w, wrote) ==
  [w EXCEPT
     !.cache.map = [i \in 1..Len(@) |->
                      IF \E j \in 1..Len(wrote) : wrote[j] = i
                      THEN [@[i] EXCEPT !.body = Mapped(w.cache.map[i].off)]
                      ELSE @[i]],
     !.crashed = \E j \in 1..Len(wrote) :
                    ~OnionKeyAt(w.cache.cache_content,
                                w.cache.map[wrote[j]].off)]

RebuildDone(w) ==
  [w |-> IF w.crashed THEN w
         ELSE [w EXCEPT !.journal_file = <<>>,
                        !.cache.journal_len = 0,
                        !.cache.bytes_dropped = 0],
   ret |-> 0, compacted |-> TRUE]

\* The old mapping is gone, the new file is in place and mapped.
RebuildMapped(w, wrote) ==
  IF w.cache.cache_content = NULL /\ wrote # <<>>
  THEN [w |-> w, ret |-> -1, compacted |-> TRUE]
  ELSE RebuildDone(Rebind(w, wrote))

RebuildWritten(acc, io) ==
  RebuildMapped(
    [acc.w EXCEPT
       !.cache.map = IF acc.w.cache.cache_content # NULL
                     THEN UnmapAll(@) ELSE @,
       !.cache_file = acc.f,
       !.cache.cache_content = tor_mmap_file(acc.f, io.maps)],
    acc.wrote)

RebuildCleaned(w, force, io) ==
  IF ~force /\ ~should_rebuild_md_cache(w.cache)
  THEN [w |-> w, ret |-> 0, compacted |-> FALSE]
  ELSE IF ~io.opens THEN [w |-> w, ret |-> -1, compacted |-> FALSE]
  ELSE RebuildWritten(
         RebuildLoop([w |-> w, f |-> <<>>, off |-> 0, wrote |-> <<>>,
                      dumps |-> 0], 1, io),
         io)

microdesc_cache_rebuild(w, st, force, io) ==
  RebuildCleaned(microdesc_cache_clean(w, st, 0, FALSE), force, io)

\* The cache file is mapped and its descriptors are added in place.
ReloadCache(w, st, io) ==
  IF tor_mmap_file(w.cache_file, io.maps) = NULL THEN w
  ELSE microdescs_add_to_cache(
         [w EXCEPT !.cache.cache_content =
                      tor_mmap_file(w.cache_file, io.maps)],
         st, w.cache_file, SAVED_IN_CACHE, FALSE, -1, NULL, io).res.w

\* The journal is read and its descriptors are added as copies.
ReloadJournal(w, st, io) ==
  microdescs_add_to_cache(
    [w EXCEPT !.cache.journal_len = FileSize(w.journal_file)],
    st, w.journal_file, SAVED_IN_JOURNAL, FALSE, -1, NULL, io).res.w

microdesc_cache_reload(w, st, io) ==
  microdesc_cache_rebuild(
    ReloadJournal(ReloadCache(microdesc_cache_clear(w), st, io), st, io),
    st, FALSE, io)

(***************************************************************************)
(* The calls into the cache.                                               *)
(***************************************************************************)
\* The cache, the node list and the disk as a call finds them.
W ==
  [cache |-> the_microdesc_cache, nodes |-> nodelist,
   cache_file |-> cache_file, journal_file |-> journal_file,
   freed |-> <<>>, crashed |-> FALSE]

\* The call leaves them as w, and what it did is recorded.
MdCalled(op, w, call) ==
  /\ the_microdesc_cache' = w.cache
  /\ nodelist' = w.nodes
  /\ cache_file' = w.cache_file
  /\ journal_file' = w.journal_file
  /\ crashed' = w.crashed
  /\ n_ops' = n_ops + 1
  /\ last' = [op |-> op, calls |-> <<call>>]
  /\ UNCHANGED <<env_vars, checker_vars, fetch_vars, sched_vars, req_vars,
                 v2_vars,
                 n_docs, current_ns_consensus, current_md_consensus,
                 consensus_waiting_for_certs, consensus_dl_status,
                 time_to_download_next_consensus, named_server_map,
                 unnamed_server_map>>

MdReady == ~crashed /\ last = NoCall /\ n_ops < MaxMdOps

\* What can go wrong with the files: the file does not open, the k-th
\* descriptor written fails, the file does not map.
IoOutcomes ==
  {[opens |-> o, fail_at |-> k, maps |-> m] :
     o \in BOOLEAN, k \in 0..MaxBatch, m \in BOOLEAN}

AllGoesWell == [opens |-> TRUE, fail_at |-> 0, maps |-> TRUE]

AddIo == {io \in IoOutcomes : io.maps /\ (io.opens \/ io.fail_at = 0)}
RebuildIo ==
  {io \in IoOutcomes : io = AllGoesWell \/ io.opens # (io.fail_at = 0 /\ io.maps)}

\* The answers of a directory server to a request for microdescriptors.
MdBatches ==
  {[i \in 1..Len(b) |-> Downloaded(b[i])] : b \in ListsOf(MdDigests, MaxBatch) \ {<<>>}}

\* How the callers add: downloaded descriptors are saved, listed now, and
\* may come with the list of the digests asked for; descriptors generated
\* here come without one.
AddInputs ==
  {[no_save |-> FALSE, listed_at |-> 0, requested_digests256 |-> NULL],
   [no_save |-> FALSE, listed_at |-> 1, requested_digests256 |-> NULL],
   [no_save |-> FALSE, listed_at |-> 1,
    requested_digests256 |-> [list |-> <<<<1, 1>>>>]],
   [no_save |-> TRUE, listed_at |-> 0, requested_digests256 |-> NULL],
   [no_save |-> TRUE, listed_at |-> 1, requested_digests256 |-> NULL]}

\* listed_at: the time of the call, or -1 for none.
ListedNow(in, t) == IF in.listed_at = 1 THEN t ELSE -1

AddReturns(s, no_save, listed_at, requested_digests256, io, out) ==
  MdCalled("add", out.res.w,
           [s |-> s, no_save |-> no_save, listed_at |-> listed_at,
            requested_digests256 |-> requested_digests256,
            added |-> out.res.added, freed |-> out.res.w.freed])

\* Descriptors arrive from a directory server, or were generated here.
AddToCache(s, no_save, listed_at, requested_digests256, io) ==
  /\ MdReady
  /\ AddReturns(s, no_save, listed_at, requested_digests256, io,
                microdescs_add_to_cache(W, St, s, SAVED_NOWHERE, no_save,
                                        listed_at, requested_digests256, io))

CleanReturns(cutoff, force, w) ==
  MdCalled("clean", w, [cutoff |-> cutoff, force |-> force, freed |-> w.freed])

CacheClean(cutoff, force) ==
  /\ MdReady
  /\ CleanReturns(cutoff, force, microdesc_cache_clean(W, St, cutoff, force))

ClearReturns(w) == MdCalled("clear", w, [freed |-> w.freed])

CacheClear ==
  /\ MdReady
  /\ ClearReturns(microdesc_cache_clear(W))

RebuildReturns(op, force, io, out) ==
  MdCalled(op, out.w,
           [force |-> force, ret |-> out.ret,
            compacted |-> out.compacted, freed |-> out.w.freed])

CacheRebuild(force, io) ==
  /\ MdReady
  /\ RebuildReturns("rebuild", force, io,
                    microdesc_cache_rebuild(W, St, force, io))

CacheReload(io) ==
  /\ MdReady
  /\ RebuildReturns("reload", FALSE, io, microdesc_cache_reload(W, St, io))

MdClockAdvances ==
  /\ ~crashed
  /\ last = NoCall
  /\ now < MaxMdTime
  /\ now' = now + 1
  /\ UNCHANGED <<last, authorities, trusted_certs, dl_uncertain,
                 use_microdescriptors, caches_dir_info, fetch_everything,
                 store_aside, store_vars, n_docs>>

\* The microdesc consensuses the store can hold when the cache is used.
MdConsensuses ==
  {d \in StoreDocs : /\ d.flavor = FLAV_MICRODESC
                     /\ d.valid_after = 1
                     /\ d.valid_until = 1
                     /\ d.voters[1].sigs[1].verifies}

\* The cache has been allocated on an empty data directory; the store holds
\* a microdesc consensus or none.
MInit ==
  /\ now = 1
  /\ authorities = {1}
  /\ dl_uncertain = {}
  /\ trusted_certs = [k \in Ids \X {1} |-> 0]
  /\ use_microdescriptors \in BOOLEAN
  /\ caches_dir_info = FALSE
  /\ fetch_everything = FALSE
  /\ qc = NULL
  /\ qres = NULL
  /\ FetchIdle
  /\ SchedIdle
  /\ ReqIdle
  /\ V2Idle
  /\ the_microdesc_cache = EmptyCache
  /\ cache_file = <<>>
  /\ journal_file = <<>>
  /\ nodelist = [n \in Nodes |-> NULL]
  /\ n_ops = 0
  /\ current_ns_consensus = NULL
  /\ current_md_consensus \in {NULL} \cup MdConsensuses
  /\ consensus_waiting_for_certs = [f \in Flavors |-> EmptySlot]
  /\ consensus_dl_status =
       [f \in Flavors |-> [n_download_failures |-> 0, next_attempt_at |-> 0]]
  /\ time_to_download_next_consensus = [f \in Flavors |-> 0]
  /\ named_server_map = NULL
  /\ unnamed_server_map = NULL
  /\ crashed = FALSE
  /\ last = NoCall
  /\ n_docs = 0

MNext ==
  \/ \E s \in MdBatches, in \in AddInputs, io \in AddIo :
        AddToCache(s, in.no_save, ListedNow(in, now),
                   in.requested_digests256, io)
  \/ \E cutoff \in {0, now}, force \in BOOLEAN : CacheClean(cutoff, force)
  \/ CacheClear
  \/ \E force \in BOOLEAN, io \in RebuildIo : CacheRebuild(force, io)
  \/ \E io \in RebuildIo : CacheReload(io)
  \/ MdClockAdvances
  \/ ReturnToMainLoop

MSpec == MInit /\ [][MNext]_vars

(***************************************************************************)
(* Claims about the microdescriptor cache.                                 *)
(***************************************************************************)
MdMap == the_microdesc_cache.map

\* The call into the cache that has just returned, if any.
MdCall == last.calls[1]

MdOps == {"add", "clean", "clear", "rebuild", "reload"}

\* A rebuild, on its own or at the end of a reload, compacted the cache and
\* returned 0.
Compacted ==
  /\ last.op \in {"rebuild", "reload"}
  /\ ~crashed
  /\ MdCall.compacted
  /\ MdCall.ret = 0

\* The body of the entry is where the mapped cache file has it.
BodyInCache(md) ==
  /\ the_microdesc_cache.cache_content # NULL
  /\ md.body = Mapped(md.off)

\* C15: after every microdesc_cache_rebuild that compacts and returns 0,
\* journal_len and bytes_dropped are 0 and every descriptor still in the map
\* has saved_location SAVED_IN_CACHE and its body at mmap base + off, also
\* when the map holds no_save descriptors and when a write failed.
C15_AsStated ==
  Compacted =>
     /\ the_microdesc_cache.journal_len = 0
     /\ the_microdesc_cache.bytes_dropped = 0
     /\ \A i \in 1..Len(MdMap) :
          /\ MdMap[i].saved_location = SAVED_IN_CACHE
          /\ BodyInCache(MdMap[i])

\* C16: in every reachable state of the cache, a descriptor has held_in_map
\* set if and only if it is the value the map stores under its digest (a
\* descriptor that is freed is out of the map and has held_in_map clear), and
\* the map holds at most one descriptor per digest.
C16_HeldInMapIffInMap ==
  /\ \A i \in 1..Len(MdMap) :
       /\ MdMap[i].held_in_map
       /\ \A j \in 1..Len(MdMap) : MdMap[j].digest = MdMap[i].digest => j = i
  /\ last.op \in MdOps =>
       \A k \in 1..Len(MdCall.freed) : ~MdCall.freed[k].held_in_map

\* A call has removed an entry from a map that keeps another.
C16_Witness ==
  /\ last.op \in {"clean", "rebuild", "reload"}
  /\ Len(MdCall.freed) > 0
  /\ Len(MdMap) > 0

\* C17: no cache operation frees a descriptor while its held_by_nodes
\* counter is nonzero.
C17_AsStated ==
  last.op \in MdOps =>
     \A k \in 1..Len(MdCall.freed) : MdCall.freed[k].held_by_nodes = 0

\* The call added descriptors, with no list of requested digests, all of
\* whose digests the map already held.
AddsKnown ==
  /\ last.op = "none"
  /\ last'.op = "add"
  /\ last'.calls[1].requested_digests256 = NULL
  /\ \A k \in 1..Len(last'.calls[1].s) :
        \E i \in 1..Len(MdMap) : MdMap[i].digest = last'.calls[1].s[k].digest

\* last_listed of the copies that arrive with the call.
NewListed == IF last'.calls[1].listed_at > 0 THEN last'.calls[1].listed_at ELSE 0

Larger(a, b) == IF a < b THEN b ELSE a

\* C18: adding a microdescriptor whose digest is already in the map changes
\* only last_listed of the existing entry, to max(existing, new): the map
\* size, the body, saved_location and offset of the entry, journal_len, n_seen
\* and total_len_seen are unchanged, the new copy is discarded and it is not
\* in the returned list of added descriptors.
C18_AsStated ==
  [][AddsKnown =>
       /\ the_microdesc_cache' =
            [the_microdesc_cache EXCEPT
               !.map = [i \in 1..Len(MdMap) |->
                          IF \E k \in 1..Len(last'.calls[1].s) :
                                last'.calls[1].s[k].digest = MdMap[i].digest
                          THEN [MdMap[i] EXCEPT
                                  !.last_listed = Larger(@, NewListed)]
                          ELSE MdMap[i]]]
       /\ last'.calls[1].added = [list |-> <<>>]
       /\ Len(last'.calls[1].freed) = Len(last'.calls[1].s)]_vars

\* What microdesc_cache_clean is to do when it does not skip: exactly the
\* entries listed before the cutoff go, and their body lengths are added to
\* bytes_dropped.
CleanedTo(cutoff) ==
  /\ the_microdesc_cache'.map =
       SelectSeq(MdMap, LAMBDA md : md.last_listed >= cutoff)
  /\ the_microdesc_cache'.bytes_dropped =
       the_microdesc_cache.bytes_dropped
         + BodyBytes(SelectSeq(MdMap, LAMBDA md : md.last_listed < cutoff))
  /\ Len(last'.calls[1].freed) = Len(MdMap) - Len(the_microdesc_cache'.map)

CleanStep == last.op = "none" /\ last'.op = "clean"

\* The cutoff of the call, now - TOLERATE_MICRODESC_AGE when none is given.
CutoffOfCall ==
  IF last'.calls[1].cutoff > 0 THEN last'.calls[1].cutoff
  ELSE now - TOLERATE_MICRODESC_AGE

\* There is a microdesc consensus with valid_after <= now <= valid_until.
LiveMdConsensus ==
  /\ current_md_consensus # NULL
  /\ current_md_consensus.valid_after <= now
  /\ now <= current_md_consensus.valid_until

\* There is one that expired no longer than REASONABLY_LIVE_TIME ago.
ReasonablyLiveMdConsensus ==
  /\ current_md_consensus # NULL
  /\ current_md_consensus.valid_after <= now
  /\ now <= current_md_consensus.valid_until + REASONABLY_LIVE_TIME

FreshCache ==
  [cache |-> EmptyCache, nodes |-> [n \in Nodes |-> NULL],
   cache_file |-> <<>>, journal_file |-> <<>>, freed |-> <<>>,
   crashed |-> FALSE]

\* The batch of downloaded descriptors with these digests.
BatchOf(digests) == [i \in 1..Len(digests) |-> Downloaded(digests[i])]

\* microdescs_add_to_cache of a downloaded batch listed at time t, the disk
\* working.
AddedAt(w, st, digests, t) ==
  microdescs_add_to_cache(w, [st EXCEPT !.now = t], BatchOf(digests),
                          SAVED_NOWHERE, FALSE, t, NULL, AllGoesWell).res.w

\* The cache after two batches were added, at time 1 and at time 2, and a
\* forced rebuild at time 2.
UsedCache(st, first, second) ==
  microdesc_cache_rebuild(
    [AddedAt(AddedAt(FreshCache, st, first, 1), st, second, 2)
       EXCEPT !.freed = <<>>],
    st, TRUE, AllGoesWell).w

\* The batches that were added.
Histories ==
  {<<first, second>> \in ListsOf(MdDigests, MaxBatch) \X ListsOf(MdDigests, 1) :
     first # <<>> /\ second # <<>> /\ Distinct(first)}

CacheIs(w) ==
  /\ the_microdesc_cache = w.cache
  /\ cache_file = w.cache_file
  /\ journal_file = w.journal_file
  /\ nodelist = w.nodes

BInit ==
  /\ now = 2
  /\ authorities = {1}
  /\ dl_uncertain = {}
  /\ trusted_certs = [k \in Ids \X {1} |-> 0]
  /\ use_microdescriptors = FALSE
  /\ caches_dir_info = FALSE
  /\ fetch_everything = FALSE
  /\ qc = NULL
  /\ qres = NULL
  /\ FetchIdle
  /\ SchedIdle
  /\ ReqIdle
  /\ V2Idle
  /\ n_ops = 0
  /\ current_ns_consensus = NULL
  /\ current_md_consensus \in {NULL} \cup MdConsensuses
  /\ consensus_waiting_for_certs = [f \in Flavors |-> EmptySlot]
  /\ consensus_dl_status =
       [f \in Flavors |-> [n_download_failures |-> 0, next_attempt_at |-> 0]]
  /\ time_to_download_next_consensus = [f \in Flavors |-> 0]
  /\ named_server_map = NULL
  /\ unnamed_server_map = NULL
  /\ crashed = FALSE
  /\ last = NoCall
  /\ n_docs = 0
  /\ \E h \in Histories : CacheIs(UsedCache(St, h[1], h[2]))

BSpec == BInit /\ [][MNext]_vars

(***************************************************************************)
(* Claims about the compaction of the cache.                               *)
(***************************************************************************)
RebuildStep == last.op = "none" /\ last'.op = "rebuild"

\* The rebuild went past its test and set out to write a new cache file.
WentOnToCompact == last'.calls[1].compacted \/ last'.calls[1].ret = -1

\* The size of the mapped cache file, 0 if there is none.
CacheLen(cache) ==
  IF cache.cache_content = NULL THEN 0 ELSE cache.cache_content.size

\* journal_len >= 16384 and (bytes_dropped > (journal_len + cache_len)/3 or
\* journal_len > cache_len/2), 16384 in model bytes.
WorthCompacting(cache) ==
  /\ cache.journal_len >= MinJournalLen
  /\ \/ cache.bytes_dropped > (cache.journal_len + CacheLen(cache)) \div 3
     \/ cache.journal_len > CacheLen(cache) \div 2

\* Where the descriptors of a map are.
Locations(map) ==
  [i \in 1..Len(map) |->
     <<map[i].digest, map[i].saved_location, map[i].off, map[i].body>>]

\* C21 as stated: with force false, microdesc_cache_rebuild compacts if and
\* only if journal_len >= 16384 and (bytes_dropped > (journal_len +
\* cache_len)/3 or journal_len > cache_len/2); when the predicate is false the
\* rebuild leaves the cache file, the journal, journal_len, bytes_dropped and
\* every descriptor's location unchanged.  With force true it always compacts.
C21_AsStated ==
  [][RebuildStep =>
       IF last'.calls[1].force THEN WentOnToCompact
       ELSE /\ WentOnToCompact <=> WorthCompacting(the_microdesc_cache)
            /\ ~WorthCompacting(the_microdesc_cache) =>
                 /\ UNCHANGED <<cache_file, journal_file>>
                 /\ the_microdesc_cache'.journal_len =
                      the_microdesc_cache.journal_len
                 /\ the_microdesc_cache'.bytes_dropped =
                      the_microdesc_cache.bytes_dropped
                 /\ Locations(the_microdesc_cache'.map) = Locations(MdMap)]_vars

\* The cache as the unforced clean that opens a rebuild leaves it.
AfterCleanStep == microdesc_cache_clean(W, St, 0, FALSE).cache

\* C21, amended: microdesc_cache_rebuild first cleans (unforced, default
\* cutoff).  With force false it then compacts if and only if, on the values
\* the clean step left, journal_len >= 16384 and (bytes_dropped > (journal_len
\* + cache_len)/3 or journal_len > cache_len/2); when the predicate is false
\* it returns 0 and the cache file, the journal and the cache are as the clean
\* step left them.  With force true it always sets out to compact.
C21_CompactsWhenWorthIt ==
  [][RebuildStep =>
       IF last'.calls[1].force THEN WentOnToCompact
       ELSE /\ WentOnToCompact <=> WorthCompacting(AfterCleanStep)
            /\ ~WorthCompacting(AfterCleanStep) =>
                 /\ UNCHANGED <<cache_file, journal_file>>
                 /\ the_microdesc_cache' = AfterCleanStep
                 /\ last'.calls[1].ret = 0]_vars

\* An unforced rebuild has left a journal of MinJournalLen bytes or more
\* alone, next to a mapped cache file.
C21_Witness ==
  /\ last.op = "rebuild"
  /\ ~MdCall.force
  /\ ~MdCall.compacted
  /\ MdCall.ret = 0
  /\ the_microdesc_cache.journal_len >= MinJournalLen
  /\ the_microdesc_cache.cache_content # NULL

\* The bytes a reader finds at the body of a descriptor: those of the heap
\* copy, those at its position of the mapped cache file, or nothing that can
\* be relied on when the pointer is null or points into a mapping that is
\* gone.
BodyRead(md, content) ==
  IF md.body = Heap THEN [digest |-> md.digest, len |-> md.bodylen]
  ELSE IF /\ md.body # NULL
          /\ md.body.mem = "mmap"
          /\ content # NULL
          /\ \E k \in 1..Len(content.data) :
                BodyPos(content.data, k) = md.body.pos
  THEN LET k == CHOOSE k \in 1..Len(content.data) :
                   BodyPos(content.data, k) = md.body.pos
       IN [digest |-> content.data[k].digest, len |-> content.data[k].len]
  ELSE [digest |-> <<>>, len |-> 0]

\* The digests of a cache, each with the bytes of its body.
Contents(cache) ==
  {<<cache.map[i].digest, BodyRead(cache.map[i], cache.cache_content)>> :
     i \in 1..Len(cache.map)}

\* A rebuild has compacted the cache and returned 0.
CompactingStep ==
  /\ RebuildStep
  /\ last'.calls[1].compacted
  /\ last'.calls[1].ret = 0
  /\ ~crashed'

\* The cache a reload makes of the disk and the cache the step leaves, the
\* disk working.
ReloadedNext == microdesc_cache_reload(W', St', AllGoesWell).w.cache

\* C22: a compaction keeps the cache contents: after microdesc_cache_rebuild
\* the map holds the same digests as after its clean step, each with a body
\* equal byte for byte to its body before the rebuild, and a
\* microdesc_cache_reload performed right after the rebuild yields a map with
\* the same set of digests and bodies.
C22_AsStated ==
  [][CompactingStep =>
       /\ Contents(the_microdesc_cache') = Contents(AfterCleanStep)
       /\ Contents(ReloadedNext) = Contents(the_microdesc_cache')]_vars

(***************************************************************************)
(* The nickname maps.  The store is handed consensuses that carry a router *)
(* list; the parser delivers the list sorted by identity digest, each      *)
(* identity once, and sets is_named and is_unnamed from the flags of the   *)
(* entry.                                                                  *)
(***************************************************************************)
\* Most routers a consensus lists.
MaxRouters == 2

RouterStatuses ==
  [identity_digest : 1..MaxRouters, descriptor_digest : {1},
   nickname : Nicknames, is_named : BOOLEAN, is_unnamed : BOOLEAN]

\* The router lists the parser can deliver.
RouterLists ==
  {l \in SeqsUpTo(RouterStatuses, MaxRouters) :
     \A i \in 1..(Len(l) - 1) :
        l[i].identity_digest < l[i + 1].identity_digest}

\* Consensuses with a router list, signed by every identity with a
\* signature that verifies.
NamedDocs ==
  {[flavor |-> f, valid_after |-> va, valid_until |-> va + MaxLifetime,
    routerstatus_list |-> l,
    voters |-> [i \in Ids |->
                  [identity_digest |-> i,
                   sigs |-> <<[signing_key_digest |-> 1,
                               verifies |-> TRUE]>>]]]
     : f \in Flavors, va \in 1..MaxValidAfter, l \in RouterLists}

\* The certificates of the authorities are known.
NInit ==
  /\ now = 1
  /\ authorities = {1}
  /\ dl_uncertain = {}
  /\ trusted_certs = [k \in Ids \X {1} |-> MaxTime]
  /\ use_microdescriptors \in BOOLEAN
  /\ caches_dir_info = FALSE
  /\ fetch_everything = FALSE
  /\ qc = NULL
  /\ qres = NULL
  /\ FetchIdle
  /\ SchedIdle
  /\ MdIdle
  /\ ReqIdle
  /\ V2Idle
  /\ StoreInit

\* The consensus of the next voting period arrives.
NextConsensusArrives(consensus) ==
  /\ consensus.valid_after = n_docs + 1
  /\ SetCurrentConsensus(consensus,
                         networkstatus_get_flavor_name(consensus.flavor), {})

NNext ==
  \/ \E consensus \in NamedDocs : NextConsensusArrives(consensus)
  \/ Tick
  \/ ReturnToMainLoop

NSpec == NInit /\ [][NNext]_vars

(***************************************************************************)
(* Claims about the nickname maps.                                         *)
(***************************************************************************)
\* The last call installed a consensus of the flavor in use.
UsableInstalled ==
  /\ last.op = "set_current_consensus"
  /\ last.calls[1].how = "installed"
  /\ last.calls[1].flav = usable_consensus_flavor(St)

\* networkstatus_get_router_digest_by_nickname.
networkstatus_get_router_digest_by_nickname(nickname) ==
  IF named_server_map = NULL THEN NULL
  ELSE strmap_get_lc(named_server_map, nickname)

\* networkstatus_nickname_is_unnamed.
networkstatus_nickname_is_unnamed(nickname) ==
  IF unnamed_server_map = NULL THEN FALSE
  ELSE strmap_get_lc(unnamed_server_map, nickname) # NULL

\* C23: after every install of the usable flavor, for every router status rs
\* of the installed consensus with the Named flag, a case-insensitive lookup
\* of rs.nickname in the named map returns rs.identity_digest, also when two
\* Named entries carry nicknames that are equal ignoring case.
C23_AsStated ==
  UsableInstalled =>
     \A i \in 1..Len(current_consensus(St).routerstatus_list) :
        LET rs == current_consensus(St).routerstatus_list[i]
        IN rs.is_named =>
             networkstatus_get_router_digest_by_nickname(rs.nickname)
               = [digest |-> rs.identity_digest]

\* C24: in every reachable state no lowercase nickname is at the same time
\* mapped to an identity digest in the named map and listed in the unnamed
\* set, whatever Named and Unnamed flags the installed consensus carries.
C24_AsStated ==
  \A nickname \in Nicknames :
     ~(/\ networkstatus_get_router_digest_by_nickname(nickname) # NULL
       /\ networkstatus_nickname_is_unnamed(nickname))

(***************************************************************************)
(* The v2 network statuses: router_set_networkstatus_v2.                   *)
(***************************************************************************)
\* The identity digests a v2 status may carry: the trusted v2 authorities
\* and one directory nobody configured.
NumV2Ids == 3
V2Ids == 1..NumV2Ids

\* The publication times a v2 status may carry.
MaxPublished == 3

\* The distinct bodies a status of the first authority and one publication
\* time may have; the statuses of the others have one body.
NumV2Bodies == 2

\* The calls of router_set_networkstatus_v2 in one run.
MaxV2Calls == 3

\* NETWORKSTATUS_ALLOW_SKEW, 24 hours, as one tick of the model clock.
NETWORKSTATUS_ALLOW_SKEW == 1

\* v2_networkstatus_source_t.
NS_FROM_CACHE == "NS_FROM_CACHE"
NS_FROM_DIR_BY_FP == "NS_FROM_DIR_BY_FP"
NS_FROM_DIR_ALL == "NS_FROM_DIR_ALL"
NS_GENERATED == "NS_GENERATED"
V2Sources == {NS_FROM_CACHE, NS_FROM_DIR_BY_FP, NS_FROM_DIR_ALL, NS_GENERATED}

\* The text of a v2 status: who signed it, when it was published, and the
\* rest of it.
V2Strings ==
  {s \in [identity_digest : V2Ids, published_on : 1..MaxPublished,
          body : 1..NumV2Bodies] :
     s.body = 1 \/ s.identity_digest = 1}

\* networkstatus_v2_parse_from_string: the digest of a status covers all of
\* its text; what does not parse gives no status.
networkstatus_v2_parse_from_string(s) ==
  IF s = Garbage THEN NULL
  ELSE [identity_digest |-> s.identity_digest,
        published_on |-> s.published_on,
        networkstatus_digest |-> <<s.identity_digest, s.published_on, s.body>>,
        received_on |-> 0]

\* base16_encode of an identity digest: the fingerprint.
base16_encode(digest) == [hex |-> digest]

\* router_get_trusteddirserver_by_digest.
router_get_trusteddirserver_by_digest(digest) ==
  IF digest \in authorities THEN [digest |-> digest] ELSE NULL

\* router_digest_is_me.
router_digest_is_me(digest) == v2_options.me = digest

\* directory_caches_v2_dir_info.
directory_caches_v2_dir_info == v2_options.caches_v2_dir_info

\* The v2 state a call works on.
V2 ==
  [networkstatus_v2_list |-> networkstatus_v2_list,
   cached_status |-> cached_status,
   cached_v2_networkstatus |-> cached_v2_networkstatus,
   v2_ns_dl_status |-> v2_ns_dl_status]

\* write_str_to_file to cached-status/<fingerprint>; the write goes through.
write_str_to_file(files, digest, s, t) ==
  [files EXCEPT ![digest] = [s |-> s, mtime |-> t]]

\* touch_file.
touch_file(files, digest, t) ==
  IF files[digest] = NULL THEN files
  ELSE [files EXCEPT ![digest] = [s |-> files[digest].s, mtime |-> t]]

\* dirserv_set_cached_networkstatus_v2: the directory server keeps the
\* latest text per identity.
dirserv_set_cached_networkstatus_v2(served, s, digest, published) ==
  [served EXCEPT ![digest] = [s |-> s, published |-> published]]

\* add_networkstatus_to_cache.
add_networkstatus_to_cache(v, s, source, ns, t) ==
  [v EXCEPT
     !.cached_status =
        IF source # NS_FROM_CACHE
        THEN write_str_to_file(v.cached_status, ns.identity_digest, s, t)
        ELSE v.cached_status,
     !.cached_v2_networkstatus =
        IF directory_caches_v2_dir_info
        THEN dirserv_set_cached_networkstatus_v2(
               v.cached_v2_networkstatus, s, ns.identity_digest,
               ns.published_on)
        ELSE v.cached_v2_networkstatus]

\* The place of the first status of the list signed by the identity, or 0.
RECURSIVE FindSameIdentity(_, _, _)
FindSameIdentity(list, digest, i) ==
  IF i > Len(list) THEN 0
  ELSE IF list[i].identity_digest = digest THEN i
  ELSE FindSameIdentity(list, digest, i + 1)

\* smartlist_sort with _compare_networkstatus_v2_published_on; statuses
\* published at the same time keep their order.
RECURSIVE SortByPublished(_)
InsertByPublished(sorted, ns) ==
  LET before == SelectSeq(sorted, LAMBDA x : x.published_on <= ns.published_on)
      after == SelectSeq(sorted, LAMBDA x : x.published_on > ns.published_on)
  IN before \o <<ns>> \o after
SortByPublished(list) ==
  IF list = <<>> THEN <<>>
  ELSE InsertByPublished(SortByPublished(SubSeq(list, 1, Len(list) - 1)),
                         list[Len(list)])

\* What a call gives back: the v2 state, the return value, the control
\* events raised, the requested fingerprints as the call leaves them, and
\* the place the call returned from.
V2Result(v, ret, events, requested, how) ==
  [v |-> v, ret |-> ret, events |-> events, requested |-> requested,
   how |-> how]

\* The published_on test of a new status against the clock.
IsSkewed(ns, t) == ns.published_on > t + NETWORKSTATUS_ALLOW_SKEW

\* The requested_fingerprints test: the status goes on when no list was
\* given, when its fingerprint is on the list, and whenever it comes from a
\* download of all statuses.
GoesOnUnrequested(source) == source = NS_FROM_DIR_ALL

\* The fingerprint list once the fingerprint is struck off.
smartlist_string_remove(requested, fp) ==
  IF requested = NULL THEN NULL
  ELSE [list |-> SelectSeq(requested.list, LAMBDA x : x # fp)]

smartlist_string_isin(requested, fp) ==
  \E i \in 1..Len(requested.list) : requested.list[i] = fp

\* The loop over networkstatus_v2_list and what follows it: the status of a
\* trusted directory is set against the one held for the same identity.
SetTrusted(v, s, ns, arrived_at, source, skewed, events, requested, t) ==
  LET list == v.networkstatus_v2_list.list
      i == FindSameIdentity(list, ns.identity_digest, 1)
      failed == [v.v2_ns_dl_status EXCEPT ![ns.identity_digest] =
                   download_status_failed(
                     v.v2_ns_dl_status[ns.identity_digest], t)]
  IN IF i # 0 /\ list[i].networkstatus_digest = ns.networkstatus_digest
     THEN V2Result(
            [v EXCEPT
               !.networkstatus_v2_list =
                  IF list[i].received_on < arrived_at
                  THEN [list |-> [list EXCEPT ![i].received_on = arrived_at]]
                  ELSE v.networkstatus_v2_list,
               !.cached_status =
                  IF list[i].received_on < arrived_at /\ source # NS_FROM_CACHE
                  THEN touch_file(v.cached_status, ns.identity_digest, t)
                  ELSE v.cached_status,
               !.v2_ns_dl_status = failed],
            0, events, requested, "same")
     ELSE IF i # 0 /\ list[i].published_on >= ns.published_on
     THEN V2Result([v EXCEPT !.v2_ns_dl_status = failed],
                   0, events, requested, "older")
     ELSE LET set == [v EXCEPT
                        !.networkstatus_v2_list =
                           [list |-> SortByPublished(
                                       IF i # 0
                                       THEN [list EXCEPT ![i] = ns]
                                       ELSE Append(list, ns))],
                        !.v2_ns_dl_status =
                           IF source # NS_FROM_CACHE
                           THEN [v.v2_ns_dl_status
                                   EXCEPT ![ns.identity_digest] =
                                      download_status_reset(
                                        v.v2_ns_dl_status[ns.identity_digest])]
                           ELSE v.v2_ns_dl_status]
          IN V2Result(IF skewed THEN set
                      ELSE add_networkstatus_to_cache(set, s, source, ns, t),
                      0, events, requested, "set")

\* The list once it exists.
WithList(v) ==
  IF v.networkstatus_v2_list = NULL
  THEN [v EXCEPT !.networkstatus_v2_list = [list |-> <<>>]]
  ELSE v

\* router_set_networkstatus_v2 once the status is parsed.
SetParsed(v, s, ns, arrived_at, source, requested, t) ==
  LET fp == base16_encode(ns.identity_digest)
      trusted_dir == router_get_trusteddirserver_by_digest(ns.identity_digest)
      skewed == IsSkewed(ns, t)
      events == IF skewed THEN {"CLOCK_SKEW"} ELSE {}
      listed == requested # NULL /\ smartlist_string_isin(requested, fp)
      left == IF listed THEN smartlist_string_remove(requested, fp)
              ELSE requested
  IN IF source \in {NS_FROM_DIR_BY_FP, NS_FROM_DIR_ALL}
        /\ router_digest_is_me(ns.identity_digest)
     THEN V2Result(WithList(v), 0, events, requested, "is_me")
     ELSE IF requested # NULL /\ ~listed /\ ~GoesOnUnrequested(source)
     THEN V2Result(WithList(v), 0, events, requested, "unrequested")
     ELSE IF trusted_dir = NULL
     THEN V2Result(IF skewed THEN WithList(v)
                   ELSE add_networkstatus_to_cache(WithList(v), s, source,
                                                   ns, t),
                   0, events, left, "untrusted")
     ELSE SetTrusted(WithList(v), s, ns, arrived_at, source, skewed, events,
                     left, t)

\* router_set_networkstatus_v2.
router_set_networkstatus_v2(v, s, arrived_at, source, requested, t) ==
  IF ~directory_caches_v2_dir_info
  THEN V2Result(v, 0, {}, requested, "not_caching")
  ELSE IF networkstatus_v2_parse_from_string(s) = NULL
  THEN V2Result(v, -1, {}, requested, "unparseable")
  ELSE SetParsed(v, s,
                 [networkstatus_v2_parse_from_string(s)
                    EXCEPT !.received_on =
                              IF arrived_at > t THEN t ELSE arrived_at],
                 IF arrived_at > t THEN t ELSE arrived_at,
                 source, requested, t)

\* The fingerprint lists a caller may hand over: none, or the fingerprints
\* of the statuses it asked for.
V2RequestedLists ==
  {NULL, [list |-> <<base16_encode(1)>>],
   [list |-> <<base16_encode(1), base16_encode(2)>>]}

\* A call of router_set_networkstatus_v2 is made and its result is kept.
V2Returns(s, source, requested, r) ==
  /\ networkstatus_v2_list' = r.v.networkstatus_v2_list
  /\ cached_status' = r.v.cached_status
  /\ cached_v2_networkstatus' = r.v.cached_v2_networkstatus
  /\ v2_ns_dl_status' = r.v.v2_ns_dl_status
  /\ last' = [op |-> "router_set_networkstatus_v2",
              calls |-> <<[s |-> s, source |-> source,
                           requested_fingerprints |-> requested,
                           requested_after |-> r.requested,
                           ret |-> r.ret, events |-> r.events,
                           how |-> r.how]>>]

SetNetworkstatusV2(s, arrived_at, source, requested) ==
  /\ last = NoCall
  /\ n_docs < MaxV2Calls
  /\ n_docs' = n_docs + 1
  /\ V2Returns(s, source, requested,
               router_set_networkstatus_v2(V2, s, arrived_at, source,
                                           requested, now))
  /\ UNCHANGED <<env_vars, checker_vars, store_vars, fetch_vars, sched_vars,
                 md_vars, req_vars, v2_options>>

\* The clock of the v2 runs.
V2Tick ==
  /\ last = NoCall
  /\ now < MaxTime
  /\ now' = now + 1
  /\ UNCHANGED <<authorities, trusted_certs, dl_uncertain,
                 use_microdescriptors, caches_dir_info, fetch_everything,
                 checker_vars, store_vars, last, n_docs, fetch_vars,
                 sched_vars, md_vars, req_vars, v2_vars>>

\* The call returns.
V2Return ==
  /\ last # NoCall
  /\ last' = NoCall
  /\ UNCHANGED <<env_vars, checker_vars, store_vars, n_docs, fetch_vars,
                 sched_vars, md_vars, req_vars, v2_vars>>

\* Two trusted v2 authorities; no status is held, nothing is on disk.
VInit ==
  /\ now = 1
  /\ authorities = {1, 2}
  /\ dl_uncertain = {}
  /\ trusted_certs = [k \in Ids \X {1} |-> 0]
  /\ use_microdescriptors = FALSE
  /\ caches_dir_info = FALSE
  /\ fetch_everything = FALSE
  /\ qc = NULL
  /\ qres = NULL
  /\ FetchIdle
  /\ SchedIdle
  /\ MdIdle
  /\ ReqIdle
  /\ StoreInit
  /\ networkstatus_v2_list = NULL
  /\ cached_status = [d \in V2Ids |-> NULL]
  /\ cached_v2_networkstatus = [d \in V2Ids |-> NULL]
  /\ v2_ns_dl_status =
       [d \in {1, 2} |-> [n_download_failures |-> 0, next_attempt_at |-> 0]]
  /\ v2_options \in [caches_v2_dir_info : BOOLEAN, me : {0, 1}]

VNext ==
  \/ \E s \in V2Strings \cup {Garbage}, late \in BOOLEAN, source \in V2Sources,
        requested \in V2RequestedLists :
       SetNetworkstatusV2(s, IF late THEN now + 1 ELSE now, source, requested)
  \/ V2Tick
  \/ V2Return

VSpec == VInit /\ [][VNext]_vars

(***************************************************************************)
(* Claims about the v2 network statuses.                                   *)
(***************************************************************************)
\* The statuses held in memory.
V2List(list) == IF list = NULL THEN <<>> ELSE list.list

\* A v2 directory cache is handed a status that parses.
V2Step ==
  /\ last = NoCall
  /\ last'.op = "router_set_networkstatus_v2"
  /\ directory_caches_v2_dir_info
  /\ last'.calls[1].s # Garbage

\* The status the step is handed.
V2Handed == networkstatus_v2_parse_from_string(last'.calls[1].s)

\* C25: a status published more than NETWORKSTATUS_ALLOW_SKEW after now is
\* rejected: the call raises CLOCK_SKEW, the statuses held in memory stay as
\* they were (the one held for that authority included), and cached-status
\* on disk is not written; a status published exactly
\* NETWORKSTATUS_ALLOW_SKEW after now, from a trusted authority other than
\* ourselves and with no request list, is taken into the list.
C25_AsStated ==
  [][V2Step =>
       /\ V2Handed.published_on > now + NETWORKSTATUS_ALLOW_SKEW =>
            /\ "CLOCK_SKEW" \in last'.calls[1].events
            /\ V2List(networkstatus_v2_list') = V2List(networkstatus_v2_list)
            /\ cached_status' = cached_status
       /\ (/\ V2Handed.published_on = now + NETWORKSTATUS_ALLOW_SKEW
           /\ V2Handed.identity_digest \in authorities
           /\ ~router_digest_is_me(V2Handed.identity_digest)
           /\ last'.calls[1].requested_fingerprints = NULL
           /\ FindSameIdentity(V2List(networkstatus_v2_list),
                               V2Handed.identity_digest, 1) = 0) =>
            /\ last'.calls[1].events = {}
            /\ \E i \in 1..Len(V2List(networkstatus_v2_list')) :
                  V2List(networkstatus_v2_list')[i].networkstatus_digest
                    = V2Handed.networkstatus_digest]_vars

\* The status held for an identity, or NULL.
V2Held(list, digest) ==
  IF FindSameIdentity(V2List(list), digest, 1) = 0 THEN NULL
  ELSE V2List(list)[FindSameIdentity(V2List(list), digest, 1)]

\* No two statuses of the list are signed by the same identity.
OnePerIdentity(list) ==
  \A i, j \in 1..Len(V2List(list)) :
     V2List(list)[i].identity_digest = V2List(list)[j].identity_digest
       => i = j

\* The fingerprint of the status handed over is not on the list of the
\* requested ones.
V2Unrequested ==
  /\ last'.calls[1].requested_fingerprints # NULL
  /\ ~smartlist_string_isin(last'.calls[1].requested_fingerprints,
                            base16_encode(V2Handed.identity_digest))

\* C26: over every sequence of calls the list holds at most one status per
\* identity; the status held for an identity gives way only to one
\* published strictly later; and a status whose fingerprint is not on the
\* list of requested fingerprints neither replaces nor adds an entry.
C26_AsStated ==
  [][/\ OnePerIdentity(networkstatus_v2_list')
     /\ \A d \in V2Ids :
          (/\ V2Held(networkstatus_v2_list, d) # NULL
           /\ V2Held(networkstatus_v2_list', d).networkstatus_digest
                # V2Held(networkstatus_v2_list, d).networkstatus_digest)
            => V2Held(networkstatus_v2_list', d).published_on
                 > V2Held(networkstatus_v2_list, d).published_on
     /\ (V2Step /\ V2Unrequested)
          => V2List(networkstatus_v2_list') = V2List(networkstatus_v2_list)
    ]_vars

(***************************************************************************)
(* Asking for the live consensus.                                          *)
(***************************************************************************)
\* The last time anybody asks.
MaxAskTime == 5

\* networkstatus_get_live_consensus.
networkstatus_get_live_consensus(st, t) ==
  IF IsLive(current_consensus(st), t) THEN current_consensus(st) ELSE NULL

\* The consensuses the store may hold of a flavor.
HeldConsensuses(f) ==
  {[flavor |-> f, valid_after |-> va, valid_until |-> va + life,
    routerstatus_list |-> <<>>]
     : va \in 1..MaxValidAfter, life \in 0..MaxLifetime}

\* The store holds, of each flavor, a consensus or none.
AInit ==
  /\ now = 1
  /\ authorities = {1}
  /\ dl_uncertain = {}
  /\ trusted_certs = [k \in Ids \X {1} |-> 0]
  /\ use_microdescriptors \in BOOLEAN
  /\ caches_dir_info = FALSE
  /\ fetch_everything = FALSE
  /\ qc = NULL
  /\ qres = NULL
  /\ FetchIdle
  /\ SchedIdle
  /\ MdIdle
  /\ ReqIdle
  /\ V2Idle
  /\ current_ns_consensus \in {NULL} \cup HeldConsensuses(FLAV_NS)
  /\ current_md_consensus \in {NULL} \cup HeldConsensuses(FLAV_MICRODESC)
  /\ consensus_waiting_for_certs = [f \in Flavors |-> EmptySlot]
  /\ consensus_dl_status =
       [f \in Flavors |-> [n_download_failures |-> 0, next_attempt_at |-> 0]]
  /\ time_to_download_next_consensus = [f \in Flavors |-> 0]
  /\ named_server_map = NULL
  /\ unnamed_server_map = NULL
  /\ crashed = FALSE
  /\ last = NoCall
  /\ n_docs = 0

\* A caller asks for the live consensus and is answered.
GetLiveConsensus ==
  /\ last = NoCall
  /\ last' = [op |-> "networkstatus_get_live_consensus",
              calls |-> <<[now |-> now,
                           ret |-> networkstatus_get_live_consensus(St, now)]>>]
  /\ UNCHANGED <<env_vars, store_aside, store_vars, n_docs>>

\* A caller asks for the reasonably live consensus of a flavor.
GetReasonablyLiveConsensus(flavor) ==
  /\ last = NoCall
  /\ last' = [op |-> "networkstatus_get_reasonably_live_consensus",
              calls |-> <<[now |-> now, flavor |-> flavor,
                           ret |-> networkstatus_get_reasonably_live_consensus(
                                     St, now, flavor)]>>]
  /\ UNCHANGED <<env_vars, store_aside, store_vars, n_docs>>

\* Time passes between two questions.
AskTick ==
  /\ last = NoCall
  /\ now < MaxAskTime
  /\ now' = now + 1
  /\ UNCHANGED <<last, authorities, trusted_certs, dl_uncertain,
                 use_microdescriptors, caches_dir_info, fetch_everything,
                 store_aside, store_vars, n_docs>>

ANext ==
  \/ GetLiveConsensus
  \/ \E flavor \in Flavors : GetReasonablyLiveConsensus(flavor)
  \/ AskTick
  \/ ReturnToMainLoop

ASpec == AInit /\ [][ANext]_vars

\* C27: the current consensus is returned as live exactly when
\* valid_after <= now <= valid_until, so at now = valid_after and at
\* now = valid_until but not at now = valid_until + 1; the consensus of a
\* flavor is returned as reasonably live exactly when
\* valid_after <= now <= valid_until + REASONABLY_LIVE_TIME.
C27_LiveIffInWindow ==
  /\ (last.op = "networkstatus_get_live_consensus"
        /\ current_consensus(St) # NULL)
       => /\ last.calls[1].ret \in {NULL, current_consensus(St)}
          /\ last.calls[1].ret # NULL
               <=> /\ current_consensus(St).valid_after <= last.calls[1].now
                   /\ last.calls[1].now <= current_consensus(St).valid_until
          /\ last.calls[1].now = current_consensus(St).valid_after
               => last.calls[1].ret # NULL
          /\ last.calls[1].now = current_consensus(St).valid_until
               => last.calls[1].ret # NULL
          /\ last.calls[1].now = current_consensus(St).valid_until + 1
               => last.calls[1].ret = NULL
  /\ \A f \in Flavors :
       (/\ last.op = "networkstatus_get_reasonably_live_consensus"
        /\ last.calls[1].flavor = f
        /\ networkstatus_get_latest_consensus_by_flavor(St, f) # NULL)
       => LET c == networkstatus_get_latest_consensus_by_flavor(St, f)
          IN /\ last.calls[1].ret \in {NULL, c}
             /\ last.calls[1].ret # NULL
                  <=> /\ c.valid_after <= last.calls[1].now
                      /\ last.calls[1].now
                           <= c.valid_until + REASONABLY_LIVE_TIME

\* The consensus is asked for at its valid_until, after its valid_after, and
\* is returned.
C27_Witness ==
  /\ last.op = "networkstatus_get_live_consensus"
  /\ current_consensus(St) # NULL
  /\ current_consensus(St).valid_after < current_consensus(St).valid_until
  /\ last.calls[1].now = current_consensus(St).valid_until
  /\ last.calls[1].ret = current_consensus(St)

(***************************************************************************)
(* The checker while the certificate store changes: one parsed consensus   *)
(* is checked again and again, certificates arrive, expire and are thrown  *)
(* away in between, and single signatures are checked against single       *)
(* certificates.                                                           *)
(***************************************************************************)
\* The consensuses checked here: the first voter signs as any voter may,
\* the others at most once and with their first key, and the signature of
\* the last one verifies.
RecheckedDocs ==
  {d \in CheckerDocs :
     \A v \in CheckerIds \ {1} :
        /\ Len(d.voters[v].sigs) <= 1
        /\ \A i \in 1..Len(d.voters[v].sigs) :
              /\ d.voters[v].sigs[i].signing_key_digest = 1
              /\ v = NumCheckerIds => d.voters[v].sigs[i].verifies}

\* All identities but the last are recognized authorities; no certificate
\* is there yet.
PInit ==
  /\ now = 1
  /\ authorities = 1..(NumCheckerIds - 1)
  /\ dl_uncertain = {}
  /\ trusted_certs = [k \in CheckerIds \X Keys |-> 0]
  /\ qc \in RecheckedDocs
  /\ qres = NULL
  /\ use_microdescriptors = FALSE
  /\ caches_dir_info = FALSE
  /\ fetch_everything = FALSE
  /\ FetchIdle
  /\ SchedIdle
  /\ MdIdle
  /\ ReqIdle
  /\ V2Idle
  /\ StoreInit

\* networkstatus_check_consensus_signature runs on the object; the call
\* record keeps the object as it was handed over.
ConsensusChecked ==
  /\ last = NoCall
  /\ qc' = networkstatus_check_consensus_signature(qc, Env).consensus
  /\ qres' = [networkstatus_check_consensus_signature(qc, Env)
                EXCEPT !.consensus = NULL]
  /\ last' = [op |-> "networkstatus_check_consensus_signature",
              calls |-> <<[consensus |-> qc]>>]
  /\ UNCHANGED <<env_vars, store_vars, n_docs, fetch_vars, sched_vars,
                 md_vars, req_vars, v2_vars>>

\* networkstatus_check_document_signature is called on one signature of
\* the object with one certificate of the store.
DocumentSignatureChecked(v, i, id, skd) ==
  /\ last = NoCall
  /\ i <= Len(qc.voters[v].sigs)
  /\ authority_cert_get_by_digests(trusted_certs, id, skd) # NULL
  /\ qc' = [qc EXCEPT
              !.voters[v].sigs[i] =
                 networkstatus_check_document_signature(
                   qc.voters[v].sigs[i],
                   authority_cert_get_by_digests(trusted_certs, id, skd)).sig]
  /\ last' = [op |-> "networkstatus_check_document_signature",
              calls |-> <<[voter |-> v, sig |-> i,
                           before |-> qc.voters[v].sigs[i],
                           cert |-> authority_cert_get_by_digests(
                                      trusted_certs, id, skd),
                           ret |-> networkstatus_check_document_signature(
                                     qc.voters[v].sigs[i],
                                     authority_cert_get_by_digests(
                                       trusted_certs, id, skd)).ret]>>]
  /\ UNCHANGED <<env_vars, qres, store_vars, n_docs, fetch_vars, sched_vars,
                 md_vars, req_vars, v2_vars>>

PNext ==
  \/ ConsensusChecked
  \/ \E v \in CheckerIds, i \in 1..MaxSigs, id \in CheckerIds, skd \in Keys :
        DocumentSignatureChecked(v, i, id, skd)
  \/ \E id \in authorities, skd \in Keys, expires \in {0, 1} :
        CertArrives(id, skd, expires)
  \/ Tick
  \/ ReturnToMainLoop

PSpec == PInit /\ [][PNext]_vars

(***************************************************************************)
(* Claims about the signature flags.                                       *)
(***************************************************************************)
\* The certificate is the one the signature names.
CertMatches(sig, cert) ==
  /\ sig.signing_key_digest = cert.signing_key_digest
  /\ sig.identity_digest = cert.identity_digest

FreshlyParsed(consensus) ==
  [voters |-> [v \in DOMAIN consensus.voters |->
                 [identity_digest |-> consensus.voters[v].identity_digest,
                  sigs |-> ParseSigs(consensus.voters[v].identity_digest,
                                     consensus.voters[v].sigs)]]]

\* The checker has just run on the object last.calls[1].consensus.
JustChecked == last.op = "networkstatus_check_consensus_signature"

\* C29 (as stated): a check returns what a check of a freshly parsed
\* consensus with the same voters and signature bytes returns against the
\* same certificate store, time and authority set, also when the object was
\* checked earlier against a different certificate store.
C29_AsStated ==
  JustChecked =>
     qres.r = networkstatus_check_consensus_signature(
                FreshlyParsed(last.calls[1].consensus), Env).r

\* The flag on the signature is one a check would set now: the signer is a
\* recognized authority and the certificate the signature names is in the
\* store and has not expired.
StillBacked(sig) ==
  /\ trusteddirserver_get_by_v3_auth_digest(authorities, sig.identity_digest)
  /\ authority_cert_get_by_digests(trusted_certs, sig.identity_digest,
                                   sig.signing_key_digest) # NULL
  /\ authority_cert_get_by_digests(trusted_certs, sig.identity_digest,
                                   sig.signing_key_digest).expires >= now

Flagged(sig) == sig.good_signature \/ sig.bad_signature

\* Every flag the object carries is still backed.
FlagsBacked(consensus) ==
  \A v \in DOMAIN consensus.voters :
     \A i \in 1..Len(consensus.voters[v].sigs) :
        Flagged(consensus.voters[v].sigs[i])
          => StillBacked(consensus.voters[v].sigs[i])

\* C29 (amended): the result is a function of the voters, the signatures
\* with the flags earlier checks left on them, the certificate store, the
\* time and the authority set: a check of an object returns what a check of
\* a freshly parsed one returns whenever every flag the object already
\* carries is one the present store would set again (recognized signer,
\* certificate present and unexpired), whatever else changed in the store
\* since the earlier checks.
C29_SameAsFreshWhenFlagsBacked ==
  (JustChecked /\ FlagsBacked(last.calls[1].consensus)) =>
     qres.r = networkstatus_check_consensus_signature(
                FreshlyParsed(last.calls[1].consensus), Env).r

\* An object that carried a flag from an earlier check, still backed, was
\* checked again and got a further signature flagged.
C29_Witness ==
  /\ JustChecked
  /\ FlagsBacked(last.calls[1].consensus)
  /\ \E v \in CheckerIds : \E i \in 1..Len(qc.voters[v].sigs) :
        Flagged(last.calls[1].consensus.voters[v].sigs[i])
  /\ \E v \in CheckerIds : \E i \in 1..Len(qc.voters[v].sigs) :
        /\ ~Flagged(last.calls[1].consensus.voters[v].sigs[i])
        /\ Flagged(qc.voters[v].sigs[i])

(***************************************************************************)
(* Claims about a failing journal.                                         *)
(***************************************************************************)
\* microdescs_add_to_cache is called and returns.
AddStep == last = NoCall /\ last'.op = "add"

\* The digests of the list the call returns; no list, no digests.
ReturnedByAdd ==
  IF last'.calls[1].added = NULL THEN {}
  ELSE Range(last'.calls[1].added.list)

\* The digests the map holds.
DigestsIn(map) == {map[i].digest : i \in 1..Len(map)}

\* The digests the call put into the map.
InsertedByAdd ==
  DigestsIn(the_microdesc_cache'.map) \ DigestsIn(the_microdesc_cache.map)

\* The journal holds the descriptor, body and all.
InJournalFile(file, md) ==
  \E k \in 1..Len(file) :
     file[k].digest = md.digest /\ file[k].len = md.bodylen

\* C30: whether the journal opens or not and whether a write fails partway
\* through the batch or not, the list microdescs_add_list_to_cache returns
\* is the set of descriptors the call put into the map, every descriptor it
\* put into the map as SAVED_IN_JOURNAL was written to the journal, and
\* journal_len grew by the number of bytes appended to the journal.
C30_AsStated ==
  [][AddStep =>
       /\ ReturnedByAdd = InsertedByAdd
       /\ \A i \in 1..Len(the_microdesc_cache'.map) :
            (/\ the_microdesc_cache'.map[i].digest \in InsertedByAdd
             /\ the_microdesc_cache'.map[i].saved_location = SAVED_IN_JOURNAL)
              => InJournalFile(journal_file', the_microdesc_cache'.map[i])
       /\ the_microdesc_cache'.journal_len - the_microdesc_cache.journal_len
            = FileSize(journal_file') - FileSize(journal_file)]_vars

(***************************************************************************)
(* Claims about the two flavors side by side.                              *)
(***************************************************************************)
\* networkstatus_set_current_consensus installs or parks a consensus.
InstallOrParkStep ==
  /\ last = NoCall
  /\ last'.op = "set_current_consensus"
  /\ last'.calls[1].how \in {"installed", "parked"}

\* C31: a call that installs or parks a consensus of one flavor leaves the
\* current consensus, the cert-waiting slot, the download status and the
\* time of the next download of the other flavor as they were.
C31_AsStated ==
  [][InstallOrParkStep =>
       \A g \in Flavors \ {last'.calls[1].flav} :
          /\ networkstatus_get_latest_consensus_by_flavor(St', g)
               = networkstatus_get_latest_consensus_by_flavor(St, g)
          /\ consensus_waiting_for_certs'[g] = consensus_waiting_for_certs[g]
          /\ consensus_dl_status'[g] = consensus_dl_status[g]
          /\ time_to_download_next_consensus'[g]
               = time_to_download_next_consensus[g]]_vars

\* networkstatus_set_current_consensus installs a consensus.
InstallStep ==
  /\ last = NoCall
  /\ last'.op = "set_current_consensus"
  /\ last'.calls[1].how = "installed"

\* The consensus the step installed.
InstalledNow ==
  networkstatus_get_latest_consensus_by_flavor(St', last'.calls[1].flav)

\* The installed consensus is live at the time of the call.
InstalledLive ==
  InstalledNow.valid_after <= now /\ now <= InstalledNow.valid_until

\* The download status of the installed flavor before and after the step.
DlBefore == consensus_dl_status[last'.calls[1].flav]
DlAfter == consensus_dl_status'[last'.calls[1].flav]

\* One more failure is on record.
FailureRecorded ==
  DlAfter.n_download_failures =
    IF DlBefore.n_download_failures < MaxDownloadFailures
    THEN DlBefore.n_download_failures + 1
    ELSE DlBefore.n_download_failures

\* C32 (as stated): after an install the flavor's download status has no
\* failures if the consensus is live at that moment, and has one more
\* failure on record otherwise, whether the consensus came from the cache
\* or not.
C32_AsStated ==
  [][InstallStep =>
       IF InstalledLive THEN DlAfter.n_download_failures = 0
       ELSE FailureRecorded]_vars

\* C32 (amended): after an install the flavor's download status is reset
\* (no failures, next attempt at once) if the consensus is live at that
\* moment; otherwise one more failure is recorded when the consensus did
\* not come from the cache, and the download status is left as it was when
\* it did.
C32_FailureUnlessFromCache ==
  [][InstallStep =>
       IF InstalledLive
       THEN DlAfter.n_download_failures = 0 /\ DlAfter.next_attempt_at = 0
       ELSE IF last'.calls[1].from_cache THEN DlAfter = DlBefore
       ELSE FailureRecorded]_vars

\* A consensus from the cache was installed while it was not live.
C32_Witness ==
  /\ last.op = "set_current_consensus"
  /\ last.calls[1].how = "installed"
  /\ last.calls[1].from_cache
  /\ ~IsLive(networkstatus_get_latest_consensus_by_flavor(
               St, last.calls[1].flav), now)

\* The transport reports the failed download of a recognized flavor.
DownloadFailedStep ==
  /\ last = NoCall
  /\ last'.op = "download_failed"

\* The scheduler set the latch of flavor g in this step.
LatchedNow(g) ==
  /\ ~consensus_waiting_for_certs[g].dl_failed
  /\ consensus_waiting_for_certs'[g].dl_failed

\* The count of failures of flavor g went up by k (below the cap of the
\* model's counter).
FailuresUpBy(g, k) ==
  \/ consensus_dl_status'[g].n_download_failures
       = consensus_dl_status[g].n_download_failures + k
  \/ /\ consensus_dl_status[g].n_download_failures + k > MaxDownloadFailures
     /\ consensus_dl_status'[g].n_download_failures = MaxDownloadFailures

\* The launch gates of flavor g, as the re-entered scheduler finds them: the
\* fetch is due, the download status with the new failure on it is ready, no
\* other fetch of the flavor is in flight, and no consensus was parked
\* less than DELAY_WHILE_FETCHING_CERTS ago.
PassesLaunchGates(g) ==
  /\ time_to_download_next_consensus'[g] <= now
  /\ download_status_failed(consensus_dl_status[g], now).next_attempt_at <= now
  /\ g \notin fetching \ {last'.calls[1].flav}
  /\ \/ consensus_waiting_for_certs[g].consensus = NULL
     \/ consensus_waiting_for_certs[g].set_at + DELAY_WHILE_FETCHING_CERTS <= now

\* C33 (as stated): when the download of a flavor fails, the failure count
\* of that flavor advances by exactly one, the download status of the other
\* flavor is unchanged, and the re-entered scheduler launches a new fetch of
\* the flavor only if it passes all launch gates.
C33_AsStated ==
  [][DownloadFailedStep =>
       /\ FailuresUpBy(last'.calls[1].flav, 1)
       /\ \A g \in Flavors \ {last'.calls[1].flav} :
             consensus_dl_status'[g] = consensus_dl_status[g]
       /\ (last'.calls[1].flav \in last'.calls[1].launched
             => PassesLaunchGates(last'.calls[1].flav))]_vars

\* C33 (amended): when the download of a flavor fails, the failure count of
\* that flavor advances by one and the scheduler runs at once as on any
\* tick.  In that run a flavor whose parked consensus has outwaited
\* DELAY_WHILE_FETCHING_CERTS with the latch unset gets the latch set and one
\* failure recorded, be it the failed flavor (two failures in all) or the
\* other one; the download status of the other flavor is unchanged
\* otherwise.  A new fetch of the failed flavor is launched only if the
\* flavor passes all launch gates.
C33_OneFailureAndTheLatch ==
  [][DownloadFailedStep =>
       /\ FailuresUpBy(last'.calls[1].flav,
                       IF LatchedNow(last'.calls[1].flav) THEN 2 ELSE 1)
       /\ \A g \in Flavors \ {last'.calls[1].flav} :
             IF LatchedNow(g) THEN FailuresUpBy(g, 1)
             ELSE consensus_dl_status'[g] = consensus_dl_status[g]
       /\ (last'.calls[1].flav \in last'.calls[1].launched
             => PassesLaunchGates(last'.calls[1].flav))]_vars

\* A failed download whose re-entry launched a fetch of both flavors, the
\* other one past the wait of its parked consensus with its first failure
\* recorded by the latch.
C33_Witness ==
  /\ last.op = "download_failed"
  /\ last.calls[1].flav \in last.calls[1].launched
  /\ \E g \in Flavors \ {last.calls[1].flav} :
        /\ g \in last.calls[1].launched
        /\ consensus_waiting_for_certs[g].consensus # NULL
        /\ consensus_waiting_for_certs[g].dl_failed
        /\ consensus_dl_status[g].n_download_failures = 1

(***************************************************************************)
(* The ancillary state of the router entries across installs.  A directory *)
(* cache holds an ns consensus whose entries have been marked since it was *)
(* parsed (a 503 answer, a failed descriptor download); consensuses of     *)
(* both flavors arrive, listing some of the same identities with the same  *)
(* or with another descriptor.                                             *)
(***************************************************************************)
\* The descriptor digests a router entry can name.
NumDescriptorDigests == 2
\* The times of a 503 answer and the counts of failed descriptor downloads
\* on record when the behaviour starts.
MaxMarked == 1

\* The router entries of the documents.
InfoEntries ==
  [identity_digest : 1..MaxRouters, descriptor_digest : 1..NumDescriptorDigests,
   nickname : {"bob"}, is_named : {FALSE}, is_unnamed : {FALSE}]

\* The router lists the parser can deliver: sorted by identity digest, each
\* identity once.
InfoLists ==
  {l \in SeqsUpTo(InfoEntries, MaxRouters) :
     \A i \in 1..(Len(l) - 1) :
        l[i].identity_digest < l[i + 1].identity_digest}

InfoDocs ==
  {[flavor |-> f, valid_after |-> va, valid_until |-> va + MaxLifetime,
    routerstatus_list |-> l,
    voters |-> [i \in Ids |->
                  [identity_digest |-> i,
                   sigs |-> <<[signing_key_digest |-> 1,
                               verifies |-> TRUE]>>]]]
     : f \in Flavors, va \in 1..MaxValidAfter, l \in InfoLists}

\* The marks the entries of a list can have gathered.
MarkedLists(l) ==
  {[i \in 1..Len(l) |->
      [l[i] EXCEPT !.last_dir_503_at = m[i][1],
                   !.dl_status.n_download_failures = m[i][2]]] :
     m \in [1..Len(l) -> (0..MaxMarked) \X (0..MaxMarked)]}

\* The ns consensuses held when the behaviour starts.
HeldWithInfo ==
  UNION {{[c EXCEPT !.routerstatus_list = l] :
            l \in MarkedLists(c.routerstatus_list)} :
           c \in {Installed(networkstatus_parse_vote_from_string(d)) :
                    d \in {x \in InfoDocs : x.flavor = FLAV_NS
                                             /\ x.valid_after = 1}}}

IInit ==
  /\ now = 1
  /\ authorities = {1}
  /\ dl_uncertain = {}
  /\ trusted_certs = [k \in Ids \X {1} |-> MaxTime]
  /\ use_microdescriptors = FALSE
  /\ caches_dir_info = TRUE
  /\ fetch_everything = FALSE
  /\ qc = NULL
  /\ qres = NULL
  /\ FetchIdle
  /\ SchedIdle
  /\ MdIdle
  /\ ReqIdle
  /\ V2Idle
  /\ current_ns_consensus \in HeldWithInfo
  /\ current_md_consensus = NULL
  /\ consensus_waiting_for_certs = [f \in Flavors |-> EmptySlot]
  /\ consensus_dl_status =
       [f \in Flavors |-> [n_download_failures |-> 0, next_attempt_at |-> 0]]
  /\ time_to_download_next_consensus = [f \in Flavors |-> 0]
  /\ named_server_map = NULL
  /\ unnamed_server_map = NULL
  /\ crashed = FALSE
  /\ last = NoCall
  /\ n_docs = 0

\* A consensus arrives from a directory server.
InfoConsensusArrives(consensus) ==
  SetCurrentConsensus(consensus,
                      networkstatus_get_flavor_name(consensus.flavor), {})

INext ==
  \/ \E consensus \in InfoDocs : InfoConsensusArrives(consensus)
  \/ Tick
  \/ ReturnToMainLoop

ISpec == IInit /\ [][INext]_vars

\* The router lists of the flavor of the step, before and after it, and the
\* entries of the document that was installed.
OldEntries ==
  IF networkstatus_get_latest_consensus_by_flavor(St, last'.calls[1].flav) = NULL
  THEN <<>>
  ELSE networkstatus_get_latest_consensus_by_flavor(
         St, last'.calls[1].flav).routerstatus_list
NewEntries == InstalledNow.routerstatus_list
ParsedEntries == last'.calls[1].digests.routerstatus_list

\* The ancillary state of an entry nothing has happened to.
FreshlyParsedInfo(rs) ==
  /\ rs.last_dir_503_at = 0
  /\ rs.dl_status.n_download_failures = 0
  /\ rs.dl_status.next_attempt_at = 0

MAX_MICRODESC_DOWNLOAD_FAILURES == 8

\* The digest of 32 zero bytes (tor_mem_is_zero).
ZeroDigest256 == <<0, 0>>

\* The descriptor digests a consensus entry can carry: those of the
\* descriptors the cache is given, one that shares its first DIGEST_LEN
\* bytes with the first of them, and the all-zero digest.
ListedDigests == MdDigests \cup {<<1, 2>>, ZeroDigest256}

\* microdesc_cache_lookup_by_digest256(cache, d): the place of the entry in
\* the map, 0 for none.
microdesc_cache_lookup_by_digest256(cache, d) == HT_FIND(cache.map, [digest |-> d])

\* The tests of microdesc_list_missing_digest256 on one entry.
MissingDigest(rs, cache, downloadable_only, skip, t) ==
  IF microdesc_cache_lookup_by_digest256(cache, rs.descriptor_digest) # 0
  THEN FALSE
  ELSE IF downloadable_only
          /\ ~download_status_is_ready(rs.dl_status, t,
                                       MAX_MICRODESC_DOWNLOAD_FAILURES)
  THEN FALSE
  ELSE IF skip # NULL /\ digestmap_get(skip.map, rs.descriptor_digest) # 0
  THEN FALSE
  ELSE IF rs.descriptor_digest = ZeroDigest256 THEN FALSE
  ELSE TRUE

RECURSIVE ListMissingLoop(_, _, _, _, _, _)
ListMissingLoop(routerstatus_list, i, cache, downloadable_only, skip, t) ==
  IF i > Len(routerstatus_list) THEN <<>>
  ELSE (IF MissingDigest(routerstatus_list[i], cache, downloadable_only,
                         skip, t)
        THEN <<routerstatus_list[i].descriptor_digest>> ELSE <<>>)
       \o ListMissingLoop(routerstatus_list, i + 1, cache, downloadable_only,
                          skip, t)

microdesc_list_missing_digest256(ns, cache, downloadable_only, skip, t) ==
  ListMissingLoop(ns.routerstatus_list, 1, cache, downloadable_only, skip, t)

\* list_pending_microdesc_downloads(pending): the digests being downloaded
\* are set in the map.
list_pending_microdesc_downloads(pending) ==
  [map |-> RequestedMap(pending, 1, digestmap_new)]

\* A variant that sets last_listed of every listed descriptor it finds.
UpdateListed_Always(w, ns, found) ==
  IF found # 0
  THEN [w EXCEPT !.cache.map[found].last_listed = ns.valid_after]
  ELSE w

\* if (md && ns->valid_after > md->last_listed) md->last_listed = ...
UpdateListed(w, ns, found) ==
  IF found # 0 /\ ns.valid_after > w.cache.map[found].last_listed
  THEN [w EXCEPT !.cache.map[found].last_listed = ns.valid_after]
  ELSE w

RECURSIVE UpdateListedLoop(_, _, _)
UpdateListedLoop(w, ns, i) ==
  IF i > Len(ns.routerstatus_list) THEN w
  ELSE UpdateListedLoop(
         UpdateListed(w, ns,
                      microdesc_cache_lookup_by_digest256(
                        w.cache, ns.routerstatus_list[i].descriptor_digest)),
         ns, i + 1)

update_microdescs_from_networkstatus(w, st, t) ==
  IF networkstatus_get_reasonably_live_consensus(st, t, FLAV_MICRODESC) = NULL
  THEN w
  ELSE UpdateListedLoop(
         w, networkstatus_get_reasonably_live_consensus(st, t, FLAV_MICRODESC),
         1)

\* update_microdesc_downloads(now) as far as the list of what to fetch;
\* pending lists the digests of the downloads in progress.
ListMissing(downloadable_only, pending) ==
  /\ MdReady
  /\ networkstatus_get_reasonably_live_consensus(St, now, FLAV_MICRODESC) # NULL
  /\ MdCalled("list_missing", W,
       [downloadable_only |-> downloadable_only, pending |-> pending,
        result |-> microdesc_list_missing_digest256(
                     networkstatus_get_reasonably_live_consensus(
                       St, now, FLAV_MICRODESC),
                     the_microdesc_cache, downloadable_only,
                     IF pending = NULL THEN NULL
                     ELSE list_pending_microdesc_downloads(pending.list),
                     now)])

UpdateFromNetworkstatus ==
  /\ MdReady
  /\ MdCalled("update_listed", update_microdescs_from_networkstatus(W, St, now),
              [valid_after |-> ValidAfterOf(
                 networkstatus_get_reasonably_live_consensus(
                   St, now, FLAV_MICRODESC))])

\* The entries of the microdesc consensuses: the identity is the place in
\* the list; a descriptor download has failed lately or not.
ListedEntries(i) ==
  {[identity_digest |-> i, descriptor_digest |-> d, nickname |-> "bob",
    is_named |-> FALSE, is_unnamed |-> FALSE, last_dir_503_at |-> 0,
    dl_status |-> [n_download_failures |-> n, next_attempt_at |-> n * MaxMdTime]] :
     d \in ListedDigests, n \in 0..(2 - i)}

\* The microdesc consensuses the store can hold.
ListingConsensuses ==
  {[flavor |-> FLAV_MICRODESC, valid_after |-> va, valid_until |-> va,
    digests |-> [va |-> va, l |-> l], routerstatus_list |-> l] :
     va \in 1..2,
     l \in {<<e1, e2>> : e1 \in ListedEntries(1), e2 \in ListedEntries(2)}}

\* The downloads in progress, as update_microdesc_downloads finds them.
PendingLists ==
  {NULL} \cup {[list |-> l] : l \in ListsOf(MdDigests, 1)}

\* The cache has been allocated on an empty data directory; the store holds
\* a microdesc consensus that lists two routers.
UInit ==
  /\ now = 1
  /\ authorities = {1}
  /\ dl_uncertain = {}
  /\ trusted_certs = [k \in Ids \X {1} |-> 0]
  /\ use_microdescriptors = TRUE
  /\ caches_dir_info = FALSE
  /\ fetch_everything = FALSE
  /\ qc = NULL
  /\ qres = NULL
  /\ FetchIdle
  /\ SchedIdle
  /\ ReqIdle
  /\ V2Idle
  /\ the_microdesc_cache = EmptyCache
  /\ cache_file = <<>>
  /\ journal_file = <<>>
  /\ nodelist = [n \in Nodes |-> NULL]
  /\ n_ops = 0
  /\ current_ns_consensus = NULL
  /\ current_md_consensus \in ListingConsensuses
  /\ consensus_waiting_for_certs = [f \in Flavors |-> EmptySlot]
  /\ consensus_dl_status =
       [f \in Flavors |-> [n_download_failures |-> 0, next_attempt_at |-> 0]]
  /\ time_to_download_next_consensus = [f \in Flavors |-> 0]
  /\ named_server_map = NULL
  /\ unnamed_server_map = NULL
  /\ crashed = FALSE
  /\ last = NoCall
  /\ n_docs = 0

UNext ==
  \/ \E s \in MdBatches, listed \in BOOLEAN :
        AddToCache(s, TRUE, IF listed THEN now ELSE -1, NULL, AllGoesWell)
  \/ \E downloadable_only \in BOOLEAN, pending \in PendingLists :
        ListMissing(downloadable_only, pending)
  \/ UpdateFromNetworkstatus
  \/ MdClockAdvances
  \/ ReturnToMainLoop

USpec == UInit /\ [][UNext]_vars

\* The digest is that of a descriptor in the cache map.
InCacheMap(d) == \E k \in 1..Len(MdMap) : MdMap[k].digest = d

\* What the claim wants listed: an entry whose descriptor is absent from the
\* cache, ready for a download when only those are asked for, not among the
\* pending downloads the caller gave, and not all-zero.
WantedMissing(rs) ==
  /\ ~InCacheMap(rs.descriptor_digest)
  /\ MdCall.downloadable_only => rs.dl_status.next_attempt_at <= now
  /\ MdCall.pending # NULL
       => \A k \in 1..Len(MdCall.pending.list) :
             MdCall.pending.list[k] # rs.descriptor_digest
  /\ rs.descriptor_digest # ZeroDigest256

\* The descriptor digests of the wanted entries, in the order of the list.
RECURSIVE WantedDigests(_, _)
WantedDigests(routerstatus_list, i) ==
  IF i > Len(routerstatus_list) THEN <<>>
  ELSE (IF WantedMissing(routerstatus_list[i])
        THEN <<routerstatus_list[i].descriptor_digest>> ELSE <<>>)
       \o WantedDigests(routerstatus_list, i + 1)

\* C35: microdesc_list_missing_digest256 returns, in consensus order,
\* exactly the descriptor digests listed in the microdesc consensus that are
\* absent from the cache, download-ready when downloadable_only is set, not
\* in the caller's skip set and not all-zero, and never a digest that is
\* present in the cache.
C35_AsStated ==
  last.op = "list_missing"
  => /\ MdCall.result = WantedDigests(current_md_consensus.routerstatus_list, 1)
     /\ \A k \in 1..Len(MdCall.result) : ~InCacheMap(MdCall.result[k])

\* A rebuild has returned -1: the replacement cache file did not open, or
\* did not map once it was written.
FailedRebuildStep ==
  /\ RebuildStep
  /\ last'.calls[1].ret = -1

\* C36: if microdesc_cache_rebuild fails (returns -1), the cache in memory
\* stays usable: every descriptor in the map still has a body with the same
\* bytes as before the call, and journal_len and bytes_dropped are not reset.
C36_AsStated ==
  [][FailedRebuildStep =>
       /\ Contents(the_microdesc_cache') \subseteq Contents(the_microdesc_cache)
       /\ the_microdesc_cache'.journal_len = AfterCleanStep.journal_len
       /\ the_microdesc_cache'.bytes_dropped = AfterCleanStep.bytes_dropped]_vars

\* The failures a scheduler step records on flavor g: one for the download
\* that failed, one for the wait that expired.
FailuresOfStep(g) ==
  (IF last'.op = "download_failed" /\ last'.calls[1].flav = g THEN 1 ELSE 0)
  + (IF LatchedNow(g) THEN 1 ELSE 0)

\* The latch is set only on a parked consensus that has outwaited the delay.
LatchMeansExpired ==
  \A g \in Flavors :
     consensus_waiting_for_certs[g].dl_failed
     => /\ consensus_waiting_for_certs[g].consensus # NULL
        /\ now >= consensus_waiting_for_certs[g].set_at
                    + DELAY_WHILE_FETCHING_CERTS

\* C37: for each parking of a consensus the scheduler records at most one
\* download failure on account of the expired wait.  A run of the scheduler
\* records that failure on a flavor exactly when it takes dl_failed of the
\* flavor from 0 to 1, and nothing else sets the latch; the latch, once set,
\* is cleared only when the slot is emptied or a consensus is parked anew;
\* and dl_failed = 1 implies that a consensus is parked and that
\* now >= set_at + DELAY_WHILE_FETCHING_CERTS.
C37_OneFailurePerParking ==
  /\ []LatchMeansExpired
  /\ [][\A g \in Flavors :
          /\ last'.op \in {"update_downloads", "download_failed"}
             => FailuresUpBy(g, FailuresOfStep(g))
          /\ LatchedNow(g)
             => last'.op \in {"update_downloads", "download_failed"}
          /\ (consensus_waiting_for_certs[g].dl_failed
              /\ ~consensus_waiting_for_certs'[g].dl_failed)
             => \/ consensus_waiting_for_certs'[g].consensus = NULL
                \/ /\ consensus_waiting_for_certs'[g].set_at = now
                   /\ last'.op \in {"set_current_consensus",
                                    "note_certs_arrived"}]_vars

\* A tick of the main loop found the wait of a parked consensus expired,
\* set the latch, recorded the first failure of the flavor and launched a
\* fetch.
C37_Witness ==
  /\ last.op = "update_downloads"
  /\ \E g \in Flavors :
        /\ g \in last.calls[1].launched
        /\ consensus_waiting_for_certs[g].dl_failed
        /\ consensus_dl_status[g].n_download_failures = 1
        /\ now = consensus_waiting_for_certs[g].set_at
                   + DELAY_WHILE_FETCHING_CERTS

\* The voters a run of the checker put in the bucket.
InBucket(b) == {i \in 1..Len(qres.buckets) : qres.buckets[i] = b}

\* C38: in every run of the quorum checker each voter of the consensus is
\* counted in exactly one of n_good, n_bad, n_missing_key, n_unknown and
\* n_no_signature, so that their sum is the number of voters, and
\* n_dl_failed_key <= n_missing_key.
C38_EachVoterCountedOnce ==
  Checked =>
     /\ Len(qres.buckets) = Len(qc.voters)
     /\ qres.n_good = Cardinality(InBucket("good"))
     /\ qres.n_bad = Cardinality(InBucket("bad"))
     /\ qres.n_missing_key = Cardinality(InBucket("missing_key"))
     /\ qres.n_unknown = Cardinality(InBucket("unknown"))
     /\ qres.n_no_signature = Cardinality(InBucket("no_signature"))
     /\ qres.n_good + qres.n_bad + qres.n_missing_key + qres.n_unknown
          + qres.n_no_signature = Len(qc.voters)
     /\ qres.n_dl_failed_key <= qres.n_missing_key

\* A run counted a voter as good although one of its signatures lacks a
\* certificate whose download looks uncertain, next to a voter counted as
\* missing its key.
C38_Witness ==
  /\ Checked
  /\ qres.n_good >= 1
  /\ qres.n_missing_key >= 1
  /\ \E i \in 1..Len(qres.buckets) :
        /\ qres.buckets[i] = "good"
        /\ qres.heres[i].dl_failed_key_here > 0

(***************************************************************************)
(* The checker is run again on the same consensus while certificates are   *)
(* added to the store and nothing else changes: the authority set is       *)
(* fixed, no certificate is taken away.                                    *)
(***************************************************************************)
\* A certificate that is not in the store arrives; it does not expire
\* within the clock of the model.
CertAdded(id, skd) ==
  /\ trusted_certs[<<id, skd>>] = 0
  /\ CertArrives(id, skd, MaxTime)

KNext ==
  \/ ConsensusChecked
  \/ \E id \in authorities, skd \in Keys : CertAdded(id, skd)
  \/ Tick
  \/ ReturnToMainLoop

KSpec == PInit /\ [][KNext]_vars

\* The consensus is checked again.
RecheckStep ==
  /\ last = NoCall
  /\ last'.op = "networkstatus_check_consensus_signature"
  /\ qres # NULL

\* C39: for a given consensus and a fixed authority set, once the quorum
\* checker has returned insufficient (-2), every later check of that
\* consensus returns insufficient, whatever certificates have been added in
\* between: n_good + n_missing_key never increases as certificates arrive.
C39_AsStated ==
  [][RecheckStep =>
       /\ qres.r = -2 => qres'.r = -2
       /\ qres'.n_good + qres'.n_missing_key
            <= qres.n_good + qres.n_missing_key]_vars

\* Descriptors are added, or the listed ones are marked.
ListingStep ==
  /\ last = NoCall
  /\ last'.op \in {"add", "update_listed"}

\* The consensus lists the digest.
ListedInConsensus(c, d) ==
  \E k \in 1..Len(c.routerstatus_list) :
     c.routerstatus_list[k].descriptor_digest = d

\* C40: for a descriptor that stays in the cache map, last_listed never
\* decreases over the calls of microdescs_add_list_to_cache and of
\* update_microdescs_from_networkstatus, and after
\* update_microdescs_from_networkstatus with a reasonably live microdesc
\* consensus every cached descriptor listed in that consensus has
\* last_listed >= valid_after of the consensus.
C40_LastListedNeverDecreases ==
  [][ListingStep =>
       /\ \A i \in 1..Len(MdMap) : \A j \in 1..Len(MdMap') :
             MdMap'[j].digest = MdMap[i].digest
             => MdMap'[j].last_listed >= MdMap[i].last_listed
       /\ (/\ last'.op = "update_listed"
           /\ current_md_consensus.valid_after <= now
           /\ now <= current_md_consensus.valid_until + REASONABLY_LIVE_TIME)
          => \A j \in 1..Len(MdMap') :
                ListedInConsensus(current_md_consensus, MdMap'[j].digest)
                => MdMap'[j].last_listed >= current_md_consensus.valid_after]_vars

\* The listed descriptors were marked while the consensus was reasonably
\* live: one listed descriptor is marked with valid_after of the consensus,
\* one was listed later than that and keeps its time.
C40_Witness ==
  /\ last.op = "update_listed"
  /\ MdCall.valid_after = 2
  /\ \E i \in 1..Len(MdMap) :
        /\ ListedInConsensus(current_md_consensus, MdMap[i].digest)
        /\ MdMap[i].last_listed = 2
  /\ \E i \in 1..Len(MdMap) :
        /\ ListedInConsensus(current_md_consensus, MdMap[i].digest)
        /\ MdMap[i].last_listed = 3

====
